---- MODULE Spec2Model ----
(***************************************************************************)
(* A model of the HTTP/1.x message framing engine of go-httpx: the body    *)
(* readers chosen by NewBodyReader (fixedReader, chunkedReader,            *)
(* closeReader) and the chunkedWriter.                                     *)
(*                                                                         *)
(* A byte is a one-character string, a Go string or []byte is a sequence   *)
(* of bytes.  Go indices are 0-based; Slice(s, i, j) is s[i:j].            *)
(***************************************************************************)
EXTENDS Integers, Sequences, FiniteSets, TLC

(***************************************************************************)
(* Bounds of the model.                                                    *)
(***************************************************************************)
MaxBuf == 2        \* largest len(p) handed to Read
MaxBody == 3       \* longest source of a fixed-length or close-delimited body
MaxCap == 3        \* largest maxSize
MaxChunks == 2     \* most data chunks in a generated chunked stream
MaxChunkLen == 2   \* longest short chunk payload
LongLen == 26      \* length of the one long payload (a size of two hexadecimal digits)
MaxWrites == 2     \* most chunkedWriter.Write calls
MaxCloses == 2     \* most chunkedWriter.Close calls
MaxValues == 3     \* most values under one header key
LongLineLen == 17  \* length of the long texts in chunk-size and trailer lines

VARIABLES
    header,        \* req.Header, the map the chunked reader adds trailers to
    maxSize,       \* the maxSize argument of NewBodyReader
    input,         \* all bytes the source will ever supply
    pos,           \* number of bytes of input consumed so far
    ctxDone,       \* ctx.Done() is closed
    body,          \* which reader NewBodyReader returned ("new": not called yet)
    retLen,        \* the length NewBodyReader returned
    retErr,        \* the error NewBodyReader returned
    fixedReader,   \* fields n, limit, readTotal
    chunkedReader, \* fields state, remain, limit, readTotal
    closeReader,   \* fields limit, readTotal
    lastN,         \* n returned by the latest Read
    lastErr,       \* err returned by the latest Read
    firstErr,      \* the first non-nil err a Read returned (where io.ReadAll stops)
    delivered,     \* all bytes the Reads have returned, in order
    gen,           \* how input was generated (never read by the program)
    w,             \* bytes the chunkedWriter has written to its bufio.Writer
    calls,         \* the Write and Close calls made on the chunkedWriter
    resp,          \* the Response: Proto, StatusCode, Status, Header, Body (nil or not)
    errAt,         \* offset at which resp.Body fails instead of going on (-1: never)
    direct,        \* body copies by-pass the buffer of the bufio.Writer (io.ReaderFrom sink)
    bw,            \* bytes buffered in the bufio.Writer of WriteResponse, not yet flushed
    sink,          \* bytes the io.Writer w has received
    pc,            \* where WriteResponse stands
    iter,          \* the range over resp.Header: keys left, current key, its values left
    copy,          \* the body strategy chosen and the bytes io.CopyN has yet to copy
    ret,           \* what WriteResponse returned ("pending" before)
    head,          \* the bytes flushed at the end of the header section
    maxLine,       \* limits.MaxLineBytes
    req,           \* the *Request parseRequestWithContext returned
    parseErr,      \* the error it returned ("pending" before, "idle" without a call)
    lineReader,    \* the CRLFFastReader: what its bufio.Reader holds beyond pos
    lineRet        \* the latest call on the CRLFFastReader and what it returned

readerVars == <<header, maxSize, input, pos, body, retLen, retErr,
                fixedReader, chunkedReader, closeReader,
                lastN, lastErr, firstErr, delivered, gen>>
writerVars == <<w, calls>>
respVars == <<resp, errAt, direct, bw, sink, pc, iter, copy, ret, head>>
parseVars == <<maxLine, req, parseErr, lineReader, lineRet>>
vars == <<readerVars, writerVars, respVars, parseVars, ctxDone>>

(***************************************************************************)
(* Bytes and strings.                                                      *)
(***************************************************************************)
CR == "\r"
LF == "\n"
CRLF == <<CR, LF>>

lowerLetters == <<"a","b","c","d","e","f","g","h","i","j","k","l","m",
                  "n","o","p","q","r","s","t","u","v","w","x","y","z">>
upperLetters == <<"A","B","C","D","E","F","G","H","I","J","K","L","M",
                  "N","O","P","Q","R","S","T","U","V","W","X","Y","Z">>
digits == <<"0","1","2","3","4","5","6","7","8","9">>

Min(a, b) == IF a < b THEN a ELSE b

\* s[i:j]
Slice(s, i, j) == SubSeq(s, i + 1, j)

ToUpper(c) ==
    IF \E i \in 1..26 : lowerLetters[i] = c
    THEN upperLetters[CHOOSE i \in 1..26 : lowerLetters[i] = c]
    ELSE c

ToLower(c) ==
    IF \E i \in 1..26 : upperLetters[i] = c
    THEN lowerLetters[CHOOSE i \in 1..26 : upperLetters[i] = c]
    ELSE c

\* strings.EqualFold on ASCII text
EqualFold(s, t) ==
    /\ Len(s) = Len(t)
    /\ \A i \in 1..Len(s) : ToLower(s[i]) = ToLower(t[i])

\* strings.IndexByte: 0-based index of the first c in s, -1 when there is none
IndexByte(s, c) ==
    IF \E i \in 1..Len(s) : s[i] = c
    THEN (CHOOSE i \in 1..Len(s) : s[i] = c /\ \A j \in 1..(i - 1) : s[j] # c) - 1
    ELSE -1

isSpace(c) == c \in {" ", "\t", CR, LF}

\* strings.TrimSpace
TrimSpace(s) ==
    IF \A i \in 1..Len(s) : isSpace(s[i])
    THEN << >>
    ELSE LET first == CHOOSE i \in 1..Len(s) :
                          ~isSpace(s[i]) /\ \A j \in 1..(i - 1) : isSpace(s[j])
             last == CHOOSE i \in 1..Len(s) :
                          ~isSpace(s[i]) /\ \A j \in (i + 1)..Len(s) : isSpace(s[j])
         IN SubSeq(s, first, last)

\* strings.TrimSuffix(s, "\r\n")
TrimSuffixCRLF(s) ==
    IF Len(s) >= 2 /\ SubSeq(s, Len(s) - 1, Len(s)) = CRLF
    THEN SubSeq(s, 1, Len(s) - 2)
    ELSE s

\* the value of c as a digit, 36 when it is none (as in strconv)
digitVal(c) ==
    IF \E i \in 1..10 : digits[i] = c
    THEN (CHOOSE i \in 1..10 : digits[i] = c) - 1
    ELSE IF \E i \in 1..26 : lowerLetters[i] = ToLower(c)
         THEN (CHOOSE i \in 1..26 : lowerLetters[i] = ToLower(c)) + 9
         ELSE 36

RECURSIVE parseDigits(_, _, _)
parseDigits(s, base, acc) ==
    IF s = << >> THEN acc
    ELSE parseDigits(Tail(s), base, acc * base + digitVal(Head(s)))

\* strconv.ParseUint(s, base, 64) for base 10 or 16 (no base prefix, no
\* underscores); the inputs of the model stay far below 2^63
ParseUint(s, base) ==
    IF s = << >> \/ \E i \in 1..Len(s) : digitVal(s[i]) >= base
    THEN [err |-> TRUE, val |-> 0]
    ELSE [err |-> FALSE, val |-> parseDigits(s, base, 0)]

\* strconv.ParseInt(s, base, 64): an optional sign, then ParseUint
ParseInt(s, base) ==
    IF s = << >> THEN [err |-> TRUE, val |-> 0]
    ELSE LET neg == Head(s) = "-"
             rest == IF Head(s) \in {"+", "-"} THEN Tail(s) ELSE s
             u == ParseUint(rest, base)
         IN IF u.err THEN u
            ELSE [err |-> FALSE, val |-> IF neg THEN 0 - u.val ELSE u.val]

RECURSIVE FormatHex(_)
\* strconv.FormatInt(v, 16) for v >= 0
FormatHex(v) ==
    IF v < 16 THEN <<IF v < 10 THEN digits[v + 1] ELSE lowerLetters[v - 9]>>
    ELSE FormatHex(v \div 16) \o FormatHex(v % 16)

(***************************************************************************)
(* Header: a map from canonical keys to the list of their values.          *)
(***************************************************************************)
RECURSIVE canonical(_, _)
canonical(s, start) ==
    IF s = << >> THEN << >>
    ELSE <<IF start THEN ToUpper(Head(s)) ELSE ToLower(Head(s))>>
         \o canonical(Tail(s), Head(s) = "-")

\* Every part between "-" gets an upper-case first letter and lower-case rest.
CanonicalHeaderKey(s) == canonical(s, TRUE)

\* Header.Add, except that the key is stored as it was given
HeaderAddRawKey(h, key, value) ==
    IF key \in DOMAIN h
    THEN [h EXCEPT ![key] = Append(@, value)]
    ELSE h @@ (key :> <<value>>)

\* Header.Add
HeaderAdd(h, key, value) ==
    LET k == CanonicalHeaderKey(key)
    IN IF k \in DOMAIN h
       THEN [h EXCEPT ![k] = Append(@, value)]
       ELSE h @@ (k :> <<value>>)

HeaderGet(h, key) ==
    LET k == CanonicalHeaderKey(key)
    IN IF k \in DOMAIN h /\ Len(h[k]) > 0 THEN h[k][1] ELSE << >>

\* Header.Set
HeaderSet(h, key, value) ==
    LET k == CanonicalHeaderKey(key)
    IN [x \in DOMAIN h \cup {k} |-> IF x = k THEN <<value>> ELSE h[x]]

\* Header.Values: the slice stored under the key, nil when there is none
HeaderValues(h, key) ==
    LET k == CanonicalHeaderKey(key)
    IN IF k \in DOMAIN h THEN h[k] ELSE << >>

\* Header.Del
HeaderDel(h, key) ==
    LET k == CanonicalHeaderKey(key)
    IN [x \in DOMAIN h \ {k} |-> h[x]]

TransferEncoding == <<"T","r","a","n","s","f","e","r","-","E","n","c","o","d","i","n","g">>
ContentLength == <<"C","o","n","t","e","n","t","-","L","e","n","g","t","h">>
chunked == <<"c","h","u","n","k","e","d">>


(***************************************************************************)
(* The byte sources.  A source answers a read into a buffer of m bytes     *)
(* with some of its next bytes or with io.EOF.                             *)
(***************************************************************************)

\* io.Reader.Read on the raw source: at least one byte while bytes are left
\* (io.EOF may come together with the last bytes), (0, io.EOF) at the end;
\* a read into an empty buffer returns 0 bytes.
srcRead(in, p0, m) ==
    LET avail == Len(in) - p0
    IN IF m = 0
       THEN {[k |-> 0, err |-> "nil"]}
            \cup (IF avail = 0 THEN {[k |-> 0, err |-> "EOF"]} ELSE {})
       ELSE IF avail = 0
            THEN {[k |-> 0, err |-> "EOF"]}
            ELSE {[k |-> j, err |-> "nil"] : j \in 1..Min(m, avail)}
                 \cup (IF avail <= m THEN {[k |-> avail, err |-> "EOF"]} ELSE {})

\* bufio.Reader.Read: what is buffered, at most m bytes, after at most one
\* read of the source; io.EOF only with 0 bytes.  For a chunked reader pos
\* counts the bytes taken out of the bufio.Reader, not what the bufio.Reader
\* has read ahead from the source.
bufRead(in, p0, m) ==
    LET avail == Len(in) - p0
    IN IF m = 0
       THEN {[k |-> 0, err |-> "nil"]}
            \cup (IF avail = 0 THEN {[k |-> 0, err |-> "EOF"]} ELSE {})
       ELSE IF avail = 0
            THEN {[k |-> 0, err |-> "EOF"]}
            ELSE {[k |-> j, err |-> "nil"] : j \in 1..Min(m, avail)}

\* bufio.Reader.ReadString('\n'): the bytes up to and including the first
\* '\n', or all the bytes left together with io.EOF.
ReadString(in, p0) ==
    LET rest == SubSeq(in, p0 + 1, Len(in))
        i == IndexByte(rest, LF)
    IN IF i >= 0
       THEN [line |-> Slice(rest, 0, i + 1), err |-> "nil", pos |-> p0 + i + 1]
       ELSE [line |-> rest, err |-> "EOF", pos |-> Len(in)]

(***************************************************************************)
(* NewBodyReader and the constructors.                                     *)
(***************************************************************************)
newFixedReader(cl, max) == [n |-> cl, limit |-> max, readTotal |-> 0]

newChunkedReader(max) ==
    [state |-> "stateChunkHeader", remain |-> 0, limit |-> max, readTotal |-> 0]

newCloseReader(max) == [limit |-> max, readTotal |-> 0]

\* NewBodyReader looking at Content-Length before Transfer-Encoding
NewBodyReaderLengthFirst(h, max) ==
    LET cl == HeaderGet(h, ContentLength)
        r == ParseInt(TrimSpace(cl), 10)
    IN IF cl # << >>
       THEN IF r.err \/ r.val < 0
            THEN [body |-> "nil", n |-> 0, err |-> "ErrLengthMismatch"]
            ELSE IF max > 0 /\ r.val > max
                 THEN [body |-> "nil", n |-> 0, err |-> "ErrBodyTooLarge"]
                 ELSE [body |-> "fixed", n |-> r.val, err |-> "nil"]
       ELSE IF EqualFold(HeaderGet(h, TransferEncoding), chunked)
            THEN [body |-> "chunked", n |-> -1, err |-> "nil"]
            ELSE [body |-> "close", n |-> -1, err |-> "nil"]

NewBodyReader(h, max) ==
    IF EqualFold(HeaderGet(h, TransferEncoding), chunked)
    THEN [body |-> "chunked", n |-> -1, err |-> "nil"]
    ELSE LET cl == HeaderGet(h, ContentLength)
         IN IF cl # << >>
            THEN LET r == ParseInt(TrimSpace(cl), 10)
                 IN IF r.err \/ r.val < 0
                    THEN [body |-> "nil", n |-> 0, err |-> "ErrLengthMismatch"]
                    ELSE IF max > 0 /\ r.val > max
                         THEN [body |-> "nil", n |-> 0, err |-> "ErrBodyTooLarge"]
                         ELSE [body |-> "fixed", n |-> r.val, err |-> "nil"]
            ELSE [body |-> "close", n |-> -1, err |-> "nil"]

\* fixedReader.Read asking the source for all of p
fixedReadUncapped(f, in, p0, plen, done) ==
    IF done
    THEN {[rd |-> f, pos |-> p0, n |-> 0, err |-> "Canceled"]}
    ELSE IF f.n <= 0
    THEN {[rd |-> f, pos |-> p0, n |-> 0, err |-> "EOF"]}
    ELSE { LET g == [f EXCEPT !.n = @ - r.k, !.readTotal = @ + r.k]
           IN [rd |-> g, pos |-> p0 + r.k, n |-> r.k,
               err |-> IF g.limit > 0 /\ g.readTotal > g.limit
                       THEN "ErrBodyTooLarge"
                       ELSE IF r.err = "EOF" /\ g.n > 0
                            THEN "ErrLengthMismatch"
                            ELSE IF g.n = 0 THEN "EOF" ELSE r.err]
           : r \in srcRead(in, p0, plen) }

\* fixedReader.Read passing the source's io.EOF on
fixedReadShortIsEOF(f, in, p0, plen, done) ==
    IF done
    THEN {[rd |-> f, pos |-> p0, n |-> 0, err |-> "Canceled"]}
    ELSE IF f.n <= 0
    THEN {[rd |-> f, pos |-> p0, n |-> 0, err |-> "EOF"]}
    ELSE { LET g == [f EXCEPT !.n = @ - r.k, !.readTotal = @ + r.k]
           IN [rd |-> g, pos |-> p0 + r.k, n |-> r.k,
               err |-> IF g.limit > 0 /\ g.readTotal > g.limit
                       THEN "ErrBodyTooLarge"
                       ELSE IF g.n = 0 THEN "EOF" ELSE r.err]
           : r \in srcRead(in, p0, Min(plen, f.n)) }

(***************************************************************************)
(* fixedReader.Read: the possible results of one call with len(p) = plen.  *)
(***************************************************************************)
fixedRead(f, in, p0, plen, done) ==
    IF done
    THEN {[rd |-> f, pos |-> p0, n |-> 0, err |-> "Canceled"]}
    ELSE IF f.n <= 0
    THEN {[rd |-> f, pos |-> p0, n |-> 0, err |-> "EOF"]}
    ELSE LET m == Min(plen, f.n)
         IN { LET g == [f EXCEPT !.n = @ - r.k, !.readTotal = @ + r.k]
              IN [rd |-> g, pos |-> p0 + r.k, n |-> r.k,
                  err |-> IF g.limit > 0 /\ g.readTotal > g.limit
                          THEN "ErrBodyTooLarge"
                          ELSE IF r.err = "EOF" /\ g.n > 0
                               THEN "ErrLengthMismatch"
                               ELSE IF g.n = 0 THEN "EOF" ELSE r.err]
              : r \in srcRead(in, p0, m) }

(***************************************************************************)
(* closeReader.Read                                                        *)
(***************************************************************************)
\* closeRead, except that the bytes a source returns together with io.EOF
\* are dropped
closeReadDropsLast(c, in, p0, plen, done) ==
    IF done
    THEN {[rd |-> c, pos |-> p0, n |-> 0, err |-> "Canceled"]}
    ELSE IF c.limit > 0 /\ c.limit - c.readTotal <= 0
    THEN {[rd |-> c, pos |-> p0, n |-> 0, err |-> "EOF"]}
    ELSE LET m == IF c.limit > 0 THEN Min(plen, c.limit - c.readTotal) ELSE plen
         IN { LET d == [c EXCEPT !.readTotal = @ + r.k]
              IN [rd |-> d, pos |-> p0 + r.k, n |-> IF r.err = "nil" THEN r.k ELSE 0,
                  err |-> IF d.limit > 0 /\ d.readTotal > d.limit
                          THEN "ErrBodyTooLarge"
                          ELSE r.err]
              : r \in srcRead(in, p0, m) }

closeRead(c, in, p0, plen, done) ==
    IF done
    THEN {[rd |-> c, pos |-> p0, n |-> 0, err |-> "Canceled"]}
    ELSE IF c.limit > 0 /\ c.limit - c.readTotal <= 0
    THEN {[rd |-> c, pos |-> p0, n |-> 0, err |-> "EOF"]}
    ELSE LET m == IF c.limit > 0 THEN Min(plen, c.limit - c.readTotal) ELSE plen
         IN { LET d == [c EXCEPT !.readTotal = @ + r.k]
              IN [rd |-> d, pos |-> p0 + r.k, n |-> r.k,
                  err |-> IF d.limit > 0 /\ d.readTotal > d.limit
                          THEN "ErrBodyTooLarge"
                          ELSE r.err]
              : r \in srcRead(in, p0, m) }

(***************************************************************************)
(* chunkedReader                                                           *)
(***************************************************************************)

\* nextChunkSize reading the size as a decimal number
nextChunkSizeDecimal(in, p0) ==
    LET rs == ReadString(in, p0)
        line == TrimSpace(rs.line)
        semi == IndexByte(line, ";")
        text == IF semi >= 0 THEN Slice(line, 0, semi) ELSE line
        r == ParseInt(text, 10)
    IN IF rs.err # "nil"
       THEN [size |-> 0, err |-> rs.err, pos |-> rs.pos]
       ELSE IF line = << >> \/ r.err \/ r.val < 0
            THEN [size |-> 0, err |-> "ErrBadChunk", pos |-> rs.pos]
            ELSE [size |-> r.val, err |-> "nil", pos |-> rs.pos]

\* nextChunkSize parsing the whole line, chunk extension included
nextChunkSizeKeepsExt(in, p0) ==
    LET rs == ReadString(in, p0)
        line == TrimSpace(rs.line)
        r == ParseInt(line, 16)
    IN IF rs.err # "nil"
       THEN [size |-> 0, err |-> rs.err, pos |-> rs.pos]
       ELSE IF line = << >>
            THEN [size |-> 0, err |-> "ErrBadChunk", pos |-> rs.pos]
            ELSE IF r.err \/ r.val < 0
                 THEN [size |-> 0, err |-> "ErrBadChunk", pos |-> rs.pos]
                 ELSE [size |-> r.val, err |-> "nil", pos |-> rs.pos]

\* nextChunkSize parses "<hex-size>\r\n"
nextChunkSize(in, p0) ==
    LET rs == ReadString(in, p0)
        line == TrimSpace(rs.line)
        semi == IndexByte(line, ";")
        text == IF semi >= 0 THEN Slice(line, 0, semi) ELSE line
        r == ParseInt(text, 16)
    IN IF rs.err # "nil"
       THEN [size |-> 0, err |-> rs.err, pos |-> rs.pos]
       ELSE IF line = << >>
            THEN [size |-> 0, err |-> "ErrBadChunk", pos |-> rs.pos]
            ELSE IF r.err \/ r.val < 0
                 THEN [size |-> 0, err |-> "ErrBadChunk", pos |-> rs.pos]
                 ELSE [size |-> r.val, err |-> "nil", pos |-> rs.pos]

RECURSIVE readTrailers(_, _, _)
\* readTrailers parses the trailer lines after the final 0-sized chunk and
\* adds each of them to the header as soon as it is parsed.
readTrailers(in, p0, h) ==
    LET rs == ReadString(in, p0)
        line == TrimSuffixCRLF(rs.line)
        i == IndexByte(line, ":")
    IN IF rs.err # "nil"
       THEN [err |-> "ErrUnexpectedTrailer", pos |-> rs.pos, header |-> h]
       ELSE IF rs.line = CRLF
            THEN [err |-> "nil", pos |-> rs.pos, header |-> h]
            ELSE IF i <= 0
                 THEN [err |-> "ErrUnexpectedTrailer", pos |-> rs.pos, header |-> h]
                 ELSE readTrailers(in, rs.pos,
                          HeaderAdd(h, CanonicalHeaderKey(Slice(line, 0, i)),
                                       TrimSpace(Slice(line, i + 1, Len(line)))))

\* stateChunkHeader, except that the size 0 ends the body at once
readChunkHeaderZeroIsDone(c, in, p0, h) ==
    LET r == nextChunkSize(in, p0)
    IN IF r.err # "nil"
       THEN {[rd |-> c, pos |-> r.pos, header |-> h, n |-> 0, err |-> r.err]}
       ELSE IF r.size = 0
            THEN {[rd |-> [c EXCEPT !.state = "stateDone"],
                   pos |-> r.pos, header |-> h, n |-> 0, err |-> "EOF"]}
            ELSE {[rd |-> [c EXCEPT !.remain = r.size, !.state = "stateChunkData"],
                   pos |-> r.pos, header |-> h, n |-> 0, err |-> "nil"]}

\* chunkedReader.Read in stateChunkHeader
readChunkHeader(c, in, p0, h) ==
    LET r == nextChunkSize(in, p0)
    IN IF r.err # "nil"
       THEN {[rd |-> c, pos |-> r.pos, header |-> h, n |-> 0, err |-> r.err]}
       ELSE IF r.size = 0
            THEN {[rd |-> [c EXCEPT !.state = "stateTrailer"],
                   pos |-> r.pos, header |-> h, n |-> 0, err |-> "nil"]}
            ELSE {[rd |-> [c EXCEPT !.remain = r.size, !.state = "stateChunkData"],
                   pos |-> r.pos, header |-> h, n |-> 0, err |-> "nil"]}

\* stateChunkData comparing each read, not the running total, with the cap
readChunkDataCapPerRead(c, in, p0, h, plen) ==
    IF c.remain <= 0
    THEN {[rd |-> [c EXCEPT !.state = "stateChunkCRLF"],
           pos |-> p0, header |-> h, n |-> 0, err |-> "nil"]}
    ELSE { LET d == [c EXCEPT !.remain = @ - r.k, !.readTotal = @ + r.k]
           IN IF d.limit > 0 /\ r.k > d.limit
              THEN [rd |-> d, pos |-> p0 + r.k, header |-> h,
                    n |-> r.k, err |-> "ErrBodyTooLarge"]
              ELSE [rd |-> IF d.remain = 0
                           THEN [d EXCEPT !.state = "stateChunkCRLF"]
                           ELSE d,
                    pos |-> p0 + r.k, header |-> h, n |-> r.k, err |-> r.err]
           : r \in bufRead(in, p0, Min(plen, c.remain)) }

\* chunkedReader.Read in stateChunkData
readChunkData(c, in, p0, h, plen) ==
    IF c.remain <= 0
    THEN {[rd |-> [c EXCEPT !.state = "stateChunkCRLF"],
           pos |-> p0, header |-> h, n |-> 0, err |-> "nil"]}
    ELSE { LET d == [c EXCEPT !.remain = @ - r.k, !.readTotal = @ + r.k]
           IN IF d.limit > 0 /\ d.readTotal > d.limit
              THEN [rd |-> d, pos |-> p0 + r.k, header |-> h,
                    n |-> r.k, err |-> "ErrBodyTooLarge"]
              ELSE IF r.err # "nil"
                   THEN [rd |-> d, pos |-> p0 + r.k, header |-> h,
                         n |-> r.k, err |-> r.err]
                   ELSE [rd |-> IF d.remain = 0
                                THEN [d EXCEPT !.state = "stateChunkCRLF"]
                                ELSE d,
                         pos |-> p0 + r.k, header |-> h,
                         n |-> r.k, err |-> "nil"]
           : r \in bufRead(in, p0, Min(plen, c.remain)) }

\* stateChunkCRLF, except that a line other than "\r\n" is passed over
readChunkCRLFLenient(c, in, p0, h) ==
    LET rs == ReadString(in, p0)
    IN IF rs.err # "nil" \/ rs.line # CRLF
       THEN {[rd |-> c, pos |-> rs.pos, header |-> h, n |-> 0, err |-> "nil"]}
       ELSE {[rd |-> [c EXCEPT !.state = "stateChunkHeader"],
              pos |-> rs.pos, header |-> h, n |-> 0, err |-> "nil"]}

\* chunkedReader.Read in stateChunkCRLF
readChunkCRLF(c, in, p0, h) ==
    LET rs == ReadString(in, p0)
    IN IF rs.err # "nil" \/ rs.line # CRLF
       THEN {[rd |-> c, pos |-> rs.pos, header |-> h, n |-> 0, err |-> "ErrBadChunk"]}
       ELSE {[rd |-> [c EXCEPT !.state = "stateChunkHeader"],
              pos |-> rs.pos, header |-> h, n |-> 0, err |-> "nil"]}

\* chunkedReader.Read in stateTrailer
readChunkTrailer(c, in, p0, h) ==
    LET t == readTrailers(in, p0, h)
    IN IF t.err # "nil"
       THEN {[rd |-> c, pos |-> t.pos, header |-> t.header, n |-> 0, err |-> t.err]}
       ELSE {[rd |-> [c EXCEPT !.state = "stateDone"],
              pos |-> t.pos, header |-> t.header, n |-> 0, err |-> "EOF"]}

\* chunkedRead, except that in stateDone a Read returns (0, nil)
chunkedReadDoneNil(c, in, p0, h, plen, done) ==
    CASE done ->
           {[rd |-> c, pos |-> p0, header |-> h, n |-> 0, err |-> "Canceled"]}
      [] c.state = "stateDone" ->
           {[rd |-> c, pos |-> p0, header |-> h, n |-> 0, err |-> "nil"]}
      [] c.state = "stateChunkHeader" -> readChunkHeader(c, in, p0, h)
      [] c.state = "stateChunkData" -> readChunkData(c, in, p0, h, plen)
      [] c.state = "stateChunkCRLF" -> readChunkCRLF(c, in, p0, h)
      [] c.state = "stateTrailer" -> readChunkTrailer(c, in, p0, h)

\* chunkedRead, except that ctx is polled after the state machine has run
chunkedReadPollsLate(c, in, p0, h, plen, done) ==
    LET outs == CASE c.state = "stateDone" ->
                       {[rd |-> c, pos |-> p0, header |-> h, n |-> 0, err |-> "EOF"]}
                  [] c.state = "stateChunkHeader" -> readChunkHeader(c, in, p0, h)
                  [] c.state = "stateChunkData" -> readChunkData(c, in, p0, h, plen)
                  [] c.state = "stateChunkCRLF" -> readChunkCRLF(c, in, p0, h)
                  [] c.state = "stateTrailer" -> readChunkTrailer(c, in, p0, h)
    IN IF done THEN { [o EXCEPT !.err = "Canceled"] : o \in outs } ELSE outs

\* chunkedReader.Read: the possible results of one call with len(p) = plen.
chunkedRead(c, in, p0, h, plen, done) ==
    CASE done ->
           {[rd |-> c, pos |-> p0, header |-> h, n |-> 0, err |-> "Canceled"]}
      [] c.state = "stateDone" ->
           {[rd |-> c, pos |-> p0, header |-> h, n |-> 0, err |-> "EOF"]}
      [] c.state = "stateChunkHeader" -> readChunkHeader(c, in, p0, h)
      [] c.state = "stateChunkData" -> readChunkData(c, in, p0, h, plen)
      [] c.state = "stateChunkCRLF" -> readChunkCRLF(c, in, p0, h)
      [] c.state = "stateTrailer" -> readChunkTrailer(c, in, p0, h)

(***************************************************************************)
(* chunkedWriter                                                           *)
(***************************************************************************)

\* chunkedWriter.Write framing an empty p too
cwWriteEmptyChunk(p, done) ==
    IF done
    THEN [out |-> << >>, n |-> 0, err |-> "Canceled"]
    ELSE [out |-> FormatHex(Len(p)) \o CRLF \o p \o CRLF, n |-> Len(p), err |-> "nil"]

\* chunkedWriter.Write, except that the size is written in upper-case
\* hexadecimal
cwWriteUpperHex(p, done) ==
    IF Len(p) = 0
    THEN [out |-> << >>, n |-> 0, err |-> "nil"]
    ELSE IF done
    THEN [out |-> << >>, n |-> 0, err |-> "Canceled"]
    ELSE [out |-> [i \in 1..Len(FormatHex(Len(p))) |-> ToUpper(FormatHex(Len(p))[i])]
                  \o CRLF \o p \o CRLF,
          n |-> Len(p), err |-> "nil"]

\* chunkedWriter.Write(p): the bytes handed to the bufio.Writer and the
\* count reported.
cwWrite(p, done) ==
    IF Len(p) = 0
    THEN [out |-> << >>, n |-> 0, err |-> "nil"]
    ELSE IF done
    THEN [out |-> << >>, n |-> 0, err |-> "Canceled"]
    ELSE [out |-> FormatHex(Len(p)) \o CRLF \o p \o CRLF, n |-> Len(p), err |-> "nil"]

\* chunkedWriter.Close
cwClose(done) ==
    IF done
    THEN [out |-> << >>, err |-> "Canceled"]
    ELSE [out |-> <<"0">> \o CRLF \o CRLF, err |-> "nil"]

(***************************************************************************)
(* The inputs: request headers, plain bodies and chunked streams.          *)
(***************************************************************************)
SeqsOf(S, lo, hi) == UNION {[1..k -> S] : k \in lo..hi}

RECURSIVE Concat(_)
Concat(ss) == IF ss = << >> THEN << >> ELSE Head(ss) \o Concat(Tail(ss))

RECURSIVE FormatDec(_)
FormatDec(v) ==
    IF v < 10 THEN <<digits[v + 1]>> ELSE FormatDec(v \div 10) \o <<digits[(v % 10) + 1]>>

RECURSIVE AddAll(_, _, _)
AddAll(h, key, vals) ==
    IF vals = << >> THEN h ELSE AddAll(HeaderAdd(h, key, Head(vals)), key, Tail(vals))

\* the values of Transfer-Encoding and of Content-Length a request may carry
TEChoices ==
    { << >>, <<chunked>>, << <<"C","h","u","n","K","E","D">> >>,
      << <<"g","z","i","p">> >>, << <<"g","z","i","p">>, chunked >> }
CLChoices ==
    { << >> }
    \cup { <<FormatDec(k)>> : k \in 0..(MaxBody + 1) }
    \cup { << << >> >>, << <<" ","2"," ">> >>, << <<"+","1">> >>, << <<"-","1">> >>,
           << <<"x">> >>, << <<"1","x">> >>, << <<" ">> >>, << <<"2">>, <<"x">> >> }

\* the header map of a request whose header lines carried these values
mkHeader(tes, cls) ==
    AddAll(AddAll(<< >>, <<"t","r","a","n","s","f","e","r","-","e","n","c","o","d","i","n","g">>, tes),
           <<"C","O","N","T","E","N","T","-","l","e","n","g","t","h">>, cls)

\* Body bytes: the byte at offset i of every body is byteAt(i), so that a
\* body is known by its length and any reordering or loss of bytes shows.
pattern == <<"a", LF, "b", CR>>
byteAt(i) == pattern[((i - 1) % Len(pattern)) + 1]
payload(off, len) == [i \in 1..len |-> byteAt(off + i)]

RECURSIVE chunksOf(_, _)
\* the chunk payloads of a body cut into chunks of the lengths ls
chunksOf(ls, off) ==
    IF ls = << >> THEN << >>
    ELSE <<payload(off, Head(ls))>> \o chunksOf(Tail(ls), off + Head(ls))

ShortChunkings == { chunksOf(ls, 0) : ls \in SeqsOf(1..MaxChunkLen, 0, MaxChunks) }
LongChunking == chunksOf(<<LongLen>>, 0)

\* the ways a chunk-size line spells the size k
sizeText(k, form) ==
    CASE form = "lower" -> FormatHex(k)
      [] form = "upper" -> <<"0">> \o [i \in 1..Len(FormatHex(k)) |-> ToUpper(FormatHex(k)[i])]
      [] form = "ext" -> FormatHex(k) \o <<";","x","=","1">>

RECURSIVE encodeChunks(_, _)
encodeChunks(cs, form) ==
    IF cs = << >> THEN << >>
    ELSE sizeText(Len(Head(cs)), form) \o CRLF \o Head(cs) \o CRLF
         \o encodeChunks(Tail(cs), form)

\* trailer lines as sent, with the key and value they stand for
trailerXT == [raw |-> <<"x","-","t",":"," ","v">>, key |-> <<"X","-","T">>, val |-> <<"v">>]
trailerXT2 == [raw |-> <<"X","-","t",":","w"," ">>, key |-> <<"X","-","T">>, val |-> <<"w">>]
trailerEtag == [raw |-> <<"e","T","A","G",":","\t","z"," ","z">>,
                key |-> <<"E","t","a","g">>, val |-> <<"z"," ","z">>]
TrailerChoices == { << >>, <<trailerXT>>, <<trailerXT, trailerEtag, trailerXT2>> }

RECURSIVE encodeTrailers(_)
encodeTrailers(ts) ==
    IF ts = << >> THEN << >>
    ELSE Head(ts).raw \o CRLF \o encodeTrailers(Tail(ts))

\* a well-formed chunked stream
wire(cs, form, ts) ==
    encodeChunks(cs, form) \o sizeText(0, form) \o CRLF \o encodeTrailers(ts) \o CRLF

\* chunk-size texts that are not a string of hexadecimal digits
BadSizeTexts ==
    { << >>, <<";","x">>, <<"-","1">>, <<"Z","Z","Z">>, <<"1","g">>,
      <<"+","1">>, <<"-","0">> }
BadTails ==
    { <<"a">> \o CRLF \o <<"0">> \o CRLF \o CRLF, <<"b","a","d">> \o CRLF }

\* how an input was made: the header values, the chunk payloads, the spelling
\* of the sizes, the trailers, where the stream was cut, the bad size text
genBase == [family |-> "none", chunks |-> << >>, form |-> "lower", trailers |-> << >>,
            cut |-> 0, bad |-> << >>, te |-> << >>, cl |-> << >>, h0 |-> << >>]

chunkedHeader == mkHeader(<<chunked>>, << >>)
genChunked == [genBase EXCEPT !.te = <<chunked>>, !.h0 = chunkedHeader]

\* request, cap and source of one message
Inputs ==
    { [header |-> mkHeader(tes, cls), maxSize |-> m, input |-> b,
       gen |-> [genBase EXCEPT !.family = "plain", !.te = tes, !.cl = cls,
                             !.h0 = mkHeader(tes, cls)]]
      : tes \in TEChoices, cls \in CLChoices, m \in 0..MaxCap,
        b \in { payload(0, len) : len \in 0..MaxBody } }
    \cup
    { [header |-> chunkedHeader, maxSize |-> m, input |-> wire(cs, form, ts),
       gen |-> [genChunked EXCEPT !.family = "wire", !.chunks = cs, !.form = form,
                             !.trailers = ts, !.cut = Len(wire(cs, form, ts))]]
      : m \in 0..MaxCap, cs \in ShortChunkings \cup {LongChunking},
        form \in {"lower", "upper", "ext"}, ts \in TrailerChoices }
    \cup
    UNION { { [header |-> chunkedHeader, maxSize |-> 0,
               input |-> SubSeq(wire(cs, "lower", ts), 1, cut),
               gen |-> [genChunked EXCEPT !.family = "trunc", !.chunks = cs,
                                     !.trailers = ts, !.cut = cut]]
              : cut \in 1..(Len(wire(cs, "lower", ts)) - 1) }
            : cs \in ShortChunkings, ts \in {<< >>, <<trailerXT>>} }
    \cup
    { [header |-> chunkedHeader, maxSize |-> 0,
       input |-> encodeChunks(cs, "lower") \o bad \o CRLF \o tail,
       gen |-> [genChunked EXCEPT !.family = "badsize", !.chunks = cs, !.bad = bad]]
      : cs \in { << >>, << <<"b">> >> }, bad \in BadSizeTexts, tail \in BadTails }

(***************************************************************************)
(* The state machine of the body readers.                                  *)
(***************************************************************************)
\* no request is being parsed
nilRequest == [isNil |-> TRUE]
newLineReader == [ahead |-> 0]
noLineRet == [op |-> "none", arg |-> 0, from |-> 0, line |-> << >>, isPrefix |-> FALSE,
              err |-> "nil", peak |-> 0]
noParse ==
    /\ maxLine = 0
    /\ req = nilRequest
    /\ parseErr = "idle"
    /\ lineReader = newLineReader
    /\ lineRet = noLineRet

\* no WriteResponse is under way
idleResp == [proto |-> << >>, code |-> 0, status |-> << >>, header |-> << >>, body |-> FALSE]
idleIter == [keys |-> {}, key |-> << >>, vals |-> << >>]
idleCopy == [mode |-> "none", n |-> 0]
noResponse ==
    /\ resp = idleResp
    /\ errAt = -1
    /\ direct = FALSE
    /\ bw = << >>
    /\ sink = << >>
    /\ pc = "idle"
    /\ iter = idleIter
    /\ copy = idleCopy
    /\ ret = "pending"
    /\ head = << >>

idleFixed == newFixedReader(0, 0)
idleChunked == newChunkedReader(0)
idleClose == newCloseReader(0)

Init ==
    /\ \E i \in Inputs :
          /\ header = i.header
          /\ maxSize = i.maxSize
          /\ input = i.input
          /\ gen = i.gen
    /\ pos = 0
    /\ ctxDone = FALSE
    /\ body = "new"
    /\ retLen = 0
    /\ retErr = "nil"
    /\ fixedReader = idleFixed
    /\ chunkedReader = idleChunked
    /\ closeReader = idleClose
    /\ lastN = 0
    /\ lastErr = "nil"
    /\ firstErr = "nil"
    /\ delivered = << >>
    /\ w = << >>
    /\ calls = << >>
    /\ noResponse
    /\ noParse

\* the caller's view of one returned Read
Return(out) ==
    /\ pos' = out.pos
    /\ lastN' = out.n
    /\ lastErr' = out.err
    /\ firstErr' = IF firstErr = "nil" THEN out.err ELSE firstErr
    /\ delivered' = delivered \o SubSeq(input, out.pos - out.n + 1, out.pos)

NewBodyReaderCall ==
    /\ body = "new"
    /\ LET r == NewBodyReader(header, maxSize)
       IN /\ body' = r.body
          /\ retLen' = r.n
          /\ retErr' = r.err
          /\ fixedReader' = IF r.body = "fixed" THEN newFixedReader(r.n, maxSize) ELSE fixedReader
          /\ chunkedReader' = IF r.body = "chunked" THEN newChunkedReader(maxSize) ELSE chunkedReader
          /\ closeReader' = IF r.body = "close" THEN newCloseReader(maxSize) ELSE closeReader
    /\ UNCHANGED <<header, maxSize, input, pos, lastN, lastErr, firstErr, delivered, gen,
                   writerVars, respVars, parseVars, ctxDone>>

\* one Read(p) with len(p) = plen
FixedReaderReadLen(plen) ==
    /\ body = "fixed"
    /\ \E out \in fixedRead(fixedReader, input, pos, plen, ctxDone) :
       /\ fixedReader' = out.rd
       /\ Return(out)
    /\ UNCHANGED <<header, maxSize, input, body, retLen, retErr, chunkedReader, closeReader,
                   gen, writerVars, respVars, parseVars, ctxDone>>

FixedReaderRead == \E plen \in 0..MaxBuf : FixedReaderReadLen(plen)

\* one Read(p) with len(p) = plen
ChunkedReaderReadLen(plen) ==
    /\ body = "chunked"
    /\ \E out \in chunkedRead(chunkedReader, input, pos, header, plen, ctxDone) :
       /\ chunkedReader' = out.rd
       /\ header' = out.header
       /\ Return(out)
    /\ UNCHANGED <<maxSize, input, body, retLen, retErr, fixedReader, closeReader,
                   gen, writerVars, respVars, parseVars, ctxDone>>

ChunkedReaderRead == \E plen \in 0..MaxBuf : ChunkedReaderReadLen(plen)

\* one Read(p) with len(p) = plen
CloseReaderReadLen(plen) ==
    /\ body = "close"
    /\ \E out \in closeRead(closeReader, input, pos, plen, ctxDone) :
       /\ closeReader' = out.rd
       /\ Return(out)
    /\ UNCHANGED <<header, maxSize, input, body, retLen, retErr, fixedReader, chunkedReader,
                   gen, writerVars, respVars, parseVars, ctxDone>>

CloseReaderRead == \E plen \in 0..MaxBuf : CloseReaderReadLen(plen)

\* the owner of the context cancels it
Cancel ==
    /\ ~ctxDone
    /\ ctxDone' = TRUE
    /\ UNCHANGED <<readerVars, writerVars, respVars, parseVars>>

Next ==
    \/ NewBodyReaderCall
    \/ FixedReaderRead
    \/ ChunkedReaderRead
    \/ CloseReaderRead
    \/ Cancel

Spec == Init /\ [][Next]_vars

(***************************************************************************)
(* The chunkedWriter, and the chunkedReader decoding what it has written.  *)
(***************************************************************************)
writes == { i \in 1..Len(calls) : calls[i].op = "Write" }
closes == { i \in 1..Len(calls) : calls[i].op = "Close" }

\* all the bytes handed to Write, in order
written == Concat([i \in 1..Len(calls) |-> calls[i].p])

\* the buffers written in TestWriteChunkedResponse
Wiki == <<"W","i","k","i">>
pedia == <<"p","e","d","i","a">>

InitRoundTrip ==
    /\ header = << >>
    /\ maxSize = 0
    /\ input = << >>
    /\ gen = [genBase EXCEPT !.family = "roundtrip"]
    /\ pos = 0
    /\ ctxDone = FALSE
    /\ body = "new"
    /\ retLen = 0
    /\ retErr = "nil"
    /\ fixedReader = idleFixed
    /\ chunkedReader = idleChunked
    /\ closeReader = idleClose
    /\ lastN = 0
    /\ lastErr = "nil"
    /\ firstErr = "nil"
    /\ delivered = << >>
    /\ w = << >>
    /\ calls = << >>
    /\ noResponse
    /\ noParse

ChunkedWriterWrite ==
    /\ body = "new"
    /\ Cardinality(writes) < MaxWrites
    /\ \E p \in { payload(Len(written), len) : len \in (0..MaxChunkLen) \cup {LongLen} }
                \cup {Wiki, pedia} :
          LET r == cwWrite(p, ctxDone)
          IN /\ w' = w \o r.out
             /\ calls' = Append(calls, [op |-> "Write", p |-> p, n |-> r.n, err |-> r.err])
    /\ UNCHANGED <<readerVars, respVars, parseVars, ctxDone>>

ChunkedWriterClose ==
    /\ body = "new"
    /\ Cardinality(closes) < MaxCloses
    /\ LET r == cwClose(ctxDone)
       IN /\ w' = w \o r.out
          /\ calls' = Append(calls, [op |-> "Close", p |-> << >>, n |-> 0, err |-> r.err])
    /\ UNCHANGED <<readerVars, respVars, parseVars, ctxDone>>

\* a chunked reader is put over the bytes written so far
DecodeWritten ==
    /\ body = "new"
    /\ body' = "chunked"
    /\ chunkedReader' = newChunkedReader(maxSize)
    /\ input' = w
    /\ UNCHANGED <<header, maxSize, pos, retLen, retErr, fixedReader, closeReader,
                   lastN, lastErr, firstErr, delivered, gen, writerVars, respVars, parseVars, ctxDone>>

NextRoundTrip ==
    \/ ChunkedWriterWrite
    \/ ChunkedWriterClose
    \/ DecodeWritten
    \/ ChunkedReaderRead
    \/ Cancel

SpecRoundTrip == InitRoundTrip /\ [][NextRoundTrip]_vars

(***************************************************************************)
(* WriteResponse.  The call is a sequence of steps, one per blocking       *)
(* operation, between which the context may be cancelled.                  *)
(***************************************************************************)
\* bufio.NewWriter(w): the default buffer size of package bufio
bufioSize == 4096

RECURSIVE bwWrite(_, _, _)
\* bufio.Writer.Write(data) on a writer holding buf over a sink holding snk:
\* data is buffered while it fits; a full buffer is flushed, and data larger
\* than an empty buffer goes straight to the sink
bwWrite(buf, snk, data) ==
    IF Len(data) <= bufioSize - Len(buf)
    THEN [buf |-> buf \o data, sink |-> snk]
    ELSE IF buf = << >>
    THEN [buf |-> << >>, sink |-> snk \o data]
    ELSE LET k == bufioSize - Len(buf)
         IN bwWrite(<< >>, snk \o buf \o SubSeq(data, 1, k), SubSeq(data, k + 1, Len(data)))

\* bufio.Writer.Flush, except that the buffered bytes stay in the buffer
bwFlushKeeps(buf, snk) == [buf |-> buf, sink |-> snk]

\* bufio.Writer.Flush
bwFlush(buf, snk) == [buf |-> << >>, sink |-> snk \o buf]

HTTP11 == <<"H","T","T","P","/","1",".","1">>

\* fmt.Sprintf("%s %d %s\r\n", proto, resp.StatusCode, resp.Status)
statusLine(proto, code, status) ==
    proto \o <<" ">> \o FormatDec(code) \o <<" ">> \o status \o CRLF

\* ck + ": " + v + "\r\n"
headerLine(k, v) == CanonicalHeaderKey(k) \o <<":", " ">> \o v \o CRLF

\* WriteResponse up to the status line, except that the context is not
\* polled
wrStartNoPoll(r, done) ==
    LET proto == IF r.proto = << >> THEN HTTP11 ELSE r.proto
        r2 == [r EXCEPT !.status = IF @ = << >> THEN FormatDec(r.code) ELSE @]
    IN [ret |-> "pending", resp |-> r2,
        out |-> bwWrite(<< >>, << >>, statusLine(proto, r2.code, r2.status))]

\* WriteResponse up to the status line: the poll of the context, the new
\* bufio.Writer, the defaults of Proto and Status, the status line
wrStart(r, done) ==
    IF done
    THEN [ret |-> "Canceled", resp |-> r, out |-> [buf |-> << >>, sink |-> << >>]]
    ELSE LET proto == IF r.proto = << >> THEN HTTP11 ELSE r.proto
             r2 == [r EXCEPT !.status = IF @ = << >> THEN FormatDec(r.code) ELSE @]
         IN [ret |-> "pending", resp |-> r2,
             out |-> bwWrite(<< >>, << >>, statusLine(proto, r2.code, r2.status))]

\* the body strategy, except that Transfer-Encoding: chunked is looked at
\* before Content-Length
selectFramingChunkedFirst(h) ==
    IF EqualFold(HeaderGet(h, TransferEncoding), chunked)
    THEN [mode |-> "chunked", n |-> 0, err |-> "nil"]
    ELSE LET clStr == HeaderGet(h, ContentLength)
         IN IF clStr # << >>
            THEN LET r == ParseInt(TrimSpace(clStr), 10)
                 IN IF r.err \/ r.val < 0
                    THEN [mode |-> "none", n |-> 0, err |-> "ErrLengthMismatch"]
                    ELSE [mode |-> "fixed", n |-> r.val, err |-> "nil"]
            ELSE [mode |-> "close", n |-> 0, err |-> "nil"]

\* the body strategy WriteResponse chooses from the header
selectFraming(h) ==
    LET clStr == HeaderGet(h, ContentLength)
    IN IF clStr # << >>
       THEN LET r == ParseInt(TrimSpace(clStr), 10)
            IN IF r.err \/ r.val < 0
               THEN [mode |-> "none", n |-> 0, err |-> "ErrLengthMismatch"]
               ELSE [mode |-> "fixed", n |-> r.val, err |-> "nil"]
       ELSE IF EqualFold(HeaderGet(h, TransferEncoding), chunked)
            THEN [mode |-> "chunked", n |-> 0, err |-> "nil"]
            ELSE [mode |-> "close", n |-> 0, err |-> "nil"]

\* resp.Body.Read(p) with len(p) = m > 0, on a source that fails at offset
\* errA (never when errA < 0)
bodyRead(in, p0, m, errA) ==
    IF errA < 0
    THEN srcRead(in, p0, m)
    ELSE IF p0 >= errA
    THEN {[k |-> 0, err |-> "ErrUnexpectedEOF"]}
    ELSE { r \in srcRead(SubSeq(in, 1, errA), p0, m) : r.err = "nil" }

\* a buffer larger than all that is left of the source
wholeBuf(in) == Len(in) + 1

\* io.LimitedReader.Read, except that the count left does not limit it
limitedReadUnlimited(in, p0, rem, errA) == bodyRead(in, p0, wholeBuf(in), errA)

\* io.LimitedReader.Read with N = rem, as io.CopyN wraps resp.Body
limitedRead(in, p0, rem, errA) ==
    IF rem <= 0
    THEN {[k |-> 0, err |-> "EOF"]}
    ELSE bodyRead(in, p0, rem, errA)

\* where the bytes a body copy has read go: to the sink when the copy
\* by-passes the buffer, else into the bufio.Writer
store(buf, snk, data, dir) ==
    IF dir THEN [buf |-> buf, sink |-> snk \o data] ELSE bwWrite(buf, snk, data)

\* the responses written: status line fields and a header of several values
respShapes ==
    { [proto |-> HTTP11, code |-> 200, status |-> <<"O","K">>, extra |-> << >>],
      [proto |-> << >>, code |-> 404, status |-> << >>, extra |-> << <<"1">>, <<"2">> >>] }

\* the values of Transfer-Encoding and of Content-Length a response may carry
RespTEChoices ==
    { << >>, <<chunked>>, << <<"C","h","u","n","K","E","D">> >>,
      << <<"g","z","i","p">>, chunked >> }
RespCLChoices ==
    { << >> }
    \cup { <<FormatDec(k)>> : k \in 0..(MaxBody + 1) }
    \cup { << << >> >>, << <<" ","2"," ">> >>, << <<"-","1">> >>, << <<"x">> >> }

respHeader(tes, cls, extra) == AddAll(mkHeader(tes, cls), <<"x","-","a">>, extra)

InitWrite ==
    /\ \E sh \in respShapes, tes \in RespTEChoices, cls \in RespCLChoices, hasBody \in BOOLEAN :
          /\ resp = [proto |-> sh.proto, code |-> sh.code, status |-> sh.status,
                     header |-> respHeader(tes, cls, sh.extra), body |-> hasBody]
          /\ gen = [genBase EXCEPT !.family = "response", !.te = tes, !.cl = cls,
                                   !.h0 = respHeader(tes, cls, sh.extra)]
          /\ IF hasBody
             THEN /\ \E len \in 0..MaxBody, e \in -1..MaxBody :
                        /\ e <= len
                        /\ input = payload(0, len)
                        /\ errAt = e
                  /\ direct \in BOOLEAN
             ELSE /\ input = << >>
                  /\ errAt = -1
                  /\ direct = FALSE
    /\ header = << >>
    /\ maxSize = 0
    /\ pos = 0
    /\ ctxDone = FALSE
    /\ body = "new"
    /\ retLen = 0
    /\ retErr = "nil"
    /\ fixedReader = idleFixed
    /\ chunkedReader = idleChunked
    /\ closeReader = idleClose
    /\ lastN = 0
    /\ lastErr = "nil"
    /\ firstErr = "nil"
    /\ delivered = << >>
    /\ w = << >>
    /\ calls = << >>
    /\ bw = << >>
    /\ sink = << >>
    /\ pc = "start"
    /\ iter = idleIter
    /\ copy = idleCopy
    /\ ret = "pending"
    /\ head = << >>
    /\ noParse

\* what a step of WriteResponse leaves alone besides its own variables
restOfWrite == <<header, maxSize, input, body, retLen, retErr, fixedReader, chunkedReader,
                 closeReader, lastN, lastErr, firstErr, delivered, gen, errAt, direct,
                 parseVars, ctxDone>>

\* return err
Returns(err) ==
    /\ ret' = err
    /\ pc' = "done"

\* lines 27-47: the first poll and the status line
WriteResponseStart ==
    /\ pc = "start"
    /\ LET s == wrStart(resp, ctxDone)
       IN /\ resp' = s.resp
          /\ bw' = s.out.buf
          /\ sink' = s.out.sink
          /\ IF s.ret = "pending"
             THEN /\ pc' = "headers"
                  /\ ret' = ret
                  /\ iter' = [keys |-> DOMAIN resp.header, key |-> << >>, vals |-> << >>]
             ELSE /\ Returns(s.ret)
                  /\ iter' = iter
    /\ UNCHANGED <<pos, w, calls, copy, head, restOfWrite>>

\* lines 50-62: one turn of the inner loop, for the next value of the
\* current key or the first value of a key the range yields next
WriteHeaderLine ==
    /\ pc = "headers"
    /\ \E it \in (IF iter.vals # << >>
                  THEN {iter}
                  ELSE {[keys |-> iter.keys \ {k}, key |-> k, vals |-> resp.header[k]]
                        : k \in iter.keys}) :
          IF ctxDone
          THEN /\ Returns("Canceled")
               /\ UNCHANGED <<bw, sink, iter>>
          ELSE LET o == bwWrite(bw, sink, headerLine(it.key, Head(it.vals)))
               IN /\ bw' = o.buf
                  /\ sink' = o.sink
                  /\ iter' = [it EXCEPT !.vals = Tail(@)]
                  /\ UNCHANGED <<pc, ret>>
    /\ UNCHANGED <<resp, pos, w, calls, copy, head, restOfWrite>>

\* lines 65-105: the empty line, the flush, and the choice of the body
\* strategy
WriteHeaderEnd ==
    /\ pc = "headers"
    /\ iter.vals = << >>
    /\ iter.keys = {}
    /\ LET o == bwWrite(bw, sink, CRLF)
           f == bwFlush(o.buf, o.sink)
           m == selectFraming(resp.header)
       IN /\ bw' = f.buf
          /\ sink' = f.sink
          /\ head' = f.sink
          /\ IF ~resp.body
             THEN Returns("nil") /\ copy' = copy
             ELSE IF m.err # "nil"
             THEN Returns(m.err) /\ copy' = copy
             ELSE /\ copy' = [mode |-> m.mode, n |-> m.n]
                  /\ pc' = "copy"
                  /\ ret' = ret
    /\ UNCHANGED <<resp, pos, w, calls, iter, restOfWrite>>

\* lines 85-88: one Read of io.CopyN(bw, resp.Body, n) and what follows it
CopyFixedStep ==
    /\ pc = "copy"
    /\ copy.mode = "fixed"
    /\ \E r \in limitedRead(input, pos, copy.n, errAt) :
          LET o == store(bw, sink, SubSeq(input, pos + 1, pos + r.k), direct)
              f == bwFlush(o.buf, o.sink)
              left == copy.n - r.k
          IN /\ pos' = pos + r.k
             /\ copy' = [copy EXCEPT !.n = left]
             /\ CASE r.err = "nil" ->
                       /\ bw' = o.buf
                       /\ sink' = o.sink
                       /\ UNCHANGED <<pc, ret>>
                  [] r.err = "EOF" /\ left <= 0 ->
                       /\ bw' = f.buf
                       /\ sink' = f.sink
                       /\ Returns("nil")
                  [] OTHER ->
                       /\ bw' = o.buf
                       /\ sink' = o.sink
                       /\ Returns(r.err)
    /\ UNCHANGED <<resp, w, calls, iter, head, restOfWrite>>

\* lines 106-109: one Read of io.Copy(bw, resp.Body) and what follows it
CopyCloseStep ==
    /\ pc = "copy"
    /\ copy.mode = "close"
    /\ \E r \in bodyRead(input, pos, wholeBuf(input), errAt) :
          LET o == store(bw, sink, SubSeq(input, pos + 1, pos + r.k), direct)
              f == bwFlush(o.buf, o.sink)
          IN /\ pos' = pos + r.k
             /\ CASE r.err = "nil" ->
                       /\ bw' = o.buf
                       /\ sink' = o.sink
                       /\ UNCHANGED <<pc, ret>>
                  [] r.err = "EOF" ->
                       /\ bw' = f.buf
                       /\ sink' = f.sink
                       /\ Returns("nil")
                  [] OTHER ->
                       /\ bw' = o.buf
                       /\ sink' = o.sink
                       /\ Returns(r.err)
    /\ UNCHANGED <<resp, w, calls, iter, copy, head, restOfWrite>>

\* the entry of calls for a Write or a Close
writeCall(p, r) == [op |-> "Write", p |-> p, n |-> r.n, err |-> r.err]
closeCall(r) == [op |-> "Close", p |-> << >>, n |-> 0, err |-> r.err]

\* lines 93-98: one turn of io.Copy(cw, resp.Body): a Read of the body, the
\* Write of what it returned, and on an error the Close before the return
CopyChunkedStep ==
    /\ pc = "copy"
    /\ copy.mode = "chunked"
    /\ \E r \in bodyRead(input, pos, wholeBuf(input), errAt) :
          LET p == SubSeq(input, pos + 1, pos + r.k)
              wr == cwWrite(p, ctxDone)
              cl == cwClose(ctxDone)
              failed == IF r.k > 0 /\ wr.err # "nil" THEN wr.err
                        ELSE IF r.err \notin {"nil", "EOF"} THEN r.err
                        ELSE "nil"
              cs == (IF r.k > 0 THEN <<writeCall(p, wr)>> ELSE << >>)
                    \o (IF failed # "nil" THEN <<closeCall(cl)>> ELSE << >>)
              out == (IF r.k > 0 THEN wr.out ELSE << >>)
                     \o (IF failed # "nil" THEN cl.out ELSE << >>)
              o == bwWrite(bw, sink, out)
          IN /\ pos' = pos + r.k
             /\ calls' = calls \o cs
             /\ w' = w \o out
             /\ bw' = o.buf
             /\ sink' = o.sink
             /\ IF failed # "nil"
                THEN Returns(failed)
                ELSE /\ pc' = IF r.err = "EOF" THEN "close" ELSE "copy"
                     /\ ret' = ret
    /\ UNCHANGED <<resp, iter, copy, head, restOfWrite>>

\* lines 99-102: the Close after io.Copy ended, and the last flush
ChunkedClose ==
    /\ pc = "close"
    /\ LET cl == cwClose(ctxDone)
           o == bwWrite(bw, sink, cl.out)
           f == bwFlush(o.buf, o.sink)
       IN /\ calls' = Append(calls, closeCall(cl))
          /\ w' = w \o cl.out
          /\ IF cl.err # "nil"
             THEN /\ bw' = o.buf
                  /\ sink' = o.sink
                  /\ Returns(cl.err)
             ELSE /\ bw' = f.buf
                  /\ sink' = f.sink
                  /\ Returns("nil")
    /\ UNCHANGED <<resp, pos, iter, copy, head, restOfWrite>>

\* the context is cancelled while WriteResponse runs, or before it
CancelWrite == pc # "done" /\ Cancel

NextWrite ==
    \/ WriteResponseStart
    \/ WriteHeaderLine
    \/ WriteHeaderEnd
    \/ CopyFixedStep
    \/ CopyCloseStep
    \/ CopyChunkedStep
    \/ ChunkedClose
    \/ CancelWrite

SpecWrite == InitWrite /\ [][NextWrite]_vars

(***************************************************************************)
(* CRLFFastReader.ReadLine, parseRequestLine, ParseRequestURI,             *)
(* ParseRequest and parseRequestWithContext.                               *)
(***************************************************************************)
DefaultBufSize == 4096

\* bufio.Reader.ReadSlice('\n') on a reader of DefaultBufSize bytes: the
\* bytes up to and with the next LF, or a full buffer without LF and
\* ErrBufferFull, or what is left of the source and io.EOF
ReadSlice(in, p0) ==
    LET rest == SubSeq(in, p0 + 1, Len(in))
        i == IndexByte(rest, LF)
    IN IF i >= 0 /\ i < DefaultBufSize
       THEN [part |-> SubSeq(rest, 1, i + 1), err |-> "nil"]
       ELSE IF Len(rest) >= DefaultBufSize
            THEN [part |-> SubSeq(rest, 1, DefaultBufSize), err |-> "ErrBufferFull"]
            ELSE [part |-> rest, err |-> "EOF"]

\* trimEOL, except that a second CR before the LF is dropped too
trimEOLTwoCR(buf) ==
    LET n == Len(buf)
        n1 == IF n > 0 /\ buf[n] = LF THEN n - 1 ELSE n
        n2 == IF n1 < n /\ n1 > 0 /\ buf[n1] = CR THEN n1 - 1 ELSE n1
        n3 == IF n2 < n1 /\ n2 > 0 /\ buf[n2] = CR THEN n2 - 1 ELSE n2
    IN SubSeq(buf, 1, n3)

\* buf without its trailing LF or CR LF
trimEOL(buf) ==
    LET n == Len(buf)
        n1 == IF n > 0 /\ buf[n] = LF THEN n - 1 ELSE n
        n2 == IF n1 < n /\ n1 > 0 /\ buf[n1] = CR THEN n1 - 1 ELSE n1
    IN SubSeq(buf, 1, n2)

\* the limit compared with what is accumulated, not with what would be
tooLongAccumulated(buf, part, max) == Len(buf) > max

\* line 57: part would make the accumulated line longer than max
tooLong(buf, part, max) == Len(buf) + Len(part) > max

\* lines 63-72: a newline was found
atNewline(buf) == [line |-> trimEOL(buf), isPrefix |-> FALSE, err |-> "nil"]

\* atEOF, except that a trailing CR is dropped
atEOFTrimmed(buf) ==
    [line |-> IF buf # << >> /\ buf[Len(buf)] = CR THEN SubSeq(buf, 1, Len(buf) - 1) ELSE buf,
     isPrefix |-> FALSE, err |-> "EOF"]

\* lines 78-82: the source ended before a newline
atEOF(buf) == [line |-> buf, isPrefix |-> FALSE, err |-> "EOF"]

RECURSIVE readLineLoop(_, _, _, _)
\* the loop of ReadLine, with buf accumulated so far: what is returned, the
\* new offset, the largest len(buf) of the call and the length of the last
\* part ReadSlice returned
readLineLoop(in, p0, buf, max) ==
    LET s == ReadSlice(in, p0)
        p1 == p0 + Len(s.part)
        acc == buf \o s.part
        at(r, b) == [line |-> r.line, isPrefix |-> r.isPrefix, err |-> r.err, pos |-> p1,
                     peak |-> Len(b), last |-> Len(s.part)]
    IN IF tooLong(buf, s.part, max)
       THEN at([line |-> << >>, isPrefix |-> TRUE, err |-> "ErrLineTooLong"], buf)
       ELSE CASE s.err = "nil" -> at(atNewline(acc), acc)
              [] s.err = "ErrBufferFull" -> readLineLoop(in, p1, acc, max)
              [] OTHER -> at(atEOF(acc), acc)

\* CRLFFastReader.ReadLine(max) at offset p0 of the source
ReadLine(in, p0, max) ==
    IF max <= 0
    THEN [line |-> << >>, isPrefix |-> FALSE, err |-> "ErrInvalidMax", pos |-> p0,
          peak |-> 0, last |-> 0]
    ELSE readLineLoop(in, p0, << >>, max)

RECURSIVE Fields(_)
\* strings.Fields
Fields(s) ==
    IF s = << >> THEN << >>
    ELSE IF isSpace(Head(s)) THEN Fields(Tail(s))
    ELSE LET n == IF \E i \in 1..Len(s) : isSpace(s[i])
                  THEN CHOOSE i \in 1..Len(s) : isSpace(s[i]) /\ \A j \in 1..(i - 1) : ~isSpace(s[j])
                  ELSE Len(s) + 1
         IN <<SubSeq(s, 1, n - 1)>> \o Fields(SubSeq(s, n, Len(s)))

\* strings.HasPrefix, except that the letter case is ignored
HasPrefixFold(s, t) == Len(s) >= Len(t) /\ EqualFold(SubSeq(s, 1, Len(t)), t)

\* strings.HasPrefix
HasPrefix(s, t) == Len(s) >= Len(t) /\ SubSeq(s, 1, Len(t)) = t

HTTPSlash == <<"H","T","T","P","/">>
noRequestLine == [Method |-> << >>, RequestURI |-> << >>, Proto |-> << >>,
                  ProtoMajor |-> 0, ProtoMinor |-> 0]

\* parseRequestLine
parseRequestLine(line) ==
    LET parts == Fields(line)
        fail(e) == [rl |-> noRequestLine, err |-> e]
    IN IF Len(parts) # 3 THEN fail("malformed request line")
       ELSE LET method == parts[1]
                target == parts[2]
                proto == parts[3]
                ver == SubSeq(proto, Len(HTTPSlash) + 1, Len(proto))
                dot == IndexByte(ver, ".")
                major == ParseInt(Slice(ver, 0, dot), 10)
                minor == ParseInt(Slice(ver, dot + 1, Len(ver)), 10)
            IN IF Len(method) = 0 \/ Len(method) > 20 THEN fail("invalid method")
               ELSE IF \E i \in 1..Len(method) : \A j \in 1..26 : upperLetters[j] # method[i]
               THEN fail("method must be uppercase")
               ELSE IF ~HasPrefix(proto, HTTPSlash) THEN fail("invalid protocol")
               ELSE IF dot < 0 THEN fail("invalid HTTP version")
               ELSE IF major.err \/ minor.err THEN fail("invalid HTTP version numbers")
               ELSE [rl |-> [Method |-> method, RequestURI |-> target, Proto |-> proto,
                             ProtoMajor |-> major.val, ProtoMinor |-> minor.val],
                     err |-> "nil"]

httpScheme == <<"h","t","t","p">>
httpsScheme == <<"h","t","t","p","s">>
noURL == [Scheme |-> << >>, Host |-> << >>, Path |-> << >>, RawQuery |-> << >>]

\* the path and the query of an origin-form target (lines 65-76)
splitQuery(u, raw) ==
    LET qmark == IndexByte(raw, "?")
        path == IF qmark >= 0 THEN Slice(raw, 0, qmark) ELSE raw
    IN [u EXCEPT !.Path = IF path = << >> THEN <<"/">> ELSE path,
                 !.RawQuery = IF qmark >= 0 THEN Slice(raw, qmark + 1, Len(raw)) ELSE << >>]

\* the cases "http://" and "https://" of ParseRequestURI
absoluteForm(scheme, rest) ==
    LET slash == IndexByte(rest, "/")
        lower(s) == [i \in 1..Len(s) |-> ToLower(s[i])]
    IN IF slash = -1
       THEN [noURL EXCEPT !.Scheme = scheme, !.Host = lower(rest), !.Path = <<"/">>]
       ELSE splitQuery([noURL EXCEPT !.Scheme = scheme, !.Host = lower(Slice(rest, 0, slash))],
                       Slice(rest, slash, Len(rest)))

\* ParseRequestURI
ParseRequestURI(raw) ==
    IF raw = << >> THEN [u |-> noURL, err |-> "empty request-target"]
    ELSE IF \E i \in 1..Len(raw) : raw[i] \in {" ", CR, LF}
    THEN [u |-> noURL, err |-> "invalid characters in request-target"]
    ELSE IF raw = <<"*">> THEN [u |-> [noURL EXCEPT !.Path = <<"*">>], err |-> "nil"]
    ELSE LET p1 == httpScheme \o <<":","/","/">>
             p2 == httpsScheme \o <<":","/","/">>
         IN [u |-> IF HasPrefix(raw, p1)
                   THEN absoluteForm(httpScheme, SubSeq(raw, Len(p1) + 1, Len(raw)))
                   ELSE IF HasPrefix(raw, p2)
                   THEN absoluteForm(httpsScheme, SubSeq(raw, Len(p2) + 1, Len(raw)))
                   ELSE splitQuery(noURL, raw),
             err |-> "nil"]

\* ParseRequest on the line reader at offset p0: the request (with the
\* context given), the error and the new offset
ParseRequest(in, p0, max, ctx) ==
    LET l == ReadLine(in, p0, max)
        rl == parseRequestLine(l.line)
        u == ParseRequestURI(rl.rl.RequestURI)
        fail(e) == [req |-> nilRequest, err |-> e, pos |-> l.pos]
    IN IF l.err # "nil" THEN fail(l.err)
       ELSE IF Len(l.line) = 0 THEN fail("empty request line")
       ELSE IF rl.err # "nil" THEN fail(rl.err)
       ELSE IF u.err # "nil" THEN fail(u.err)
       ELSE [req |-> [isNil |-> FALSE, requestLine |-> rl.rl, URL |-> u.u,
                      Header |-> << >>,
                      Host |-> [i \in 1..Len(u.u.Host) |-> ToLower(u.u.Host[i])],
                      ctx |-> ctx],
             err |-> "nil", pos |-> l.pos]

\* parseRequestWithContext, except that the context is not polled
parseRequestNoPoll(done, in, p0, max) == ParseRequest(in, p0, max, "ctx")

\* parseRequestWithContext
parseRequestWithContext(done, in, p0, max) ==
    IF done
    THEN [req |-> nilRequest, err |-> "Canceled", pos |-> p0]
    ELSE ParseRequest(in, p0, max, "ctx")

\* the request lines parsed: method, separators, target, protocol, and what
\* follows the line
Methods ==
    { <<"G","E","T">>, <<"g","e","t">>, <<"G","1">>, [i \in 1..20 |-> "A"],
      [i \in 1..21 |-> "A"] }
Targets ==
    { <<"/","a","/","b","?","x","=","1">>,
      <<"h","t","t","p",":","/","/","E","x",".","c","o","m","/","x","?","q","=","1">>,
      <<"h","t","t","p","s",":","/","/","h">>,
      <<"*">>, <<"?","q">> }
Protos ==
    { <<"H","T","T","P","/","1",".","1">>, <<"h","t","t","p","/","1",".","1">>,
      <<"H","T","T","P","/","1">>, <<"H","T","T","P","/","x",".","1">>,
      <<"H","T","T","P","/","+","1",".","-","1">>,
      <<"H","T","T","P","/","1",".","2",".","3">>, <<"H","T","T","P","/","1",".">> }
Separators == { <<" ">>, <<" ", "\t">> }
LineEnds ==
    { CRLF \o <<"H","o","s","t",":"," ","x">> \o CRLF \o CRLF, <<LF>>, << >> }
OtherLines ==
    { << >>, CRLF, <<"G","E","T"," ","/">> \o CRLF,
      <<"G","E","T"," ","/"," ","H","T","T","P","/","1",".","1"," ","x">> \o CRLF }
RequestSources ==
    { m \o s \o t \o s \o p \o e :
        m \in Methods, s \in Separators, t \in Targets, p \in Protos, e \in LineEnds }
    \cup OtherLines
MaxLineChoices == {0, 8, 4096}

InitParse ==
    /\ input \in RequestSources
    /\ maxLine \in MaxLineChoices
    /\ req = nilRequest
    /\ parseErr = "pending"
    /\ lineReader = newLineReader
    /\ lineRet = noLineRet
    /\ gen = [genBase EXCEPT !.family = "request"]
    /\ header = << >>
    /\ maxSize = 0
    /\ pos = 0
    /\ ctxDone = FALSE
    /\ body = "nil"
    /\ retLen = 0
    /\ retErr = "nil"
    /\ fixedReader = idleFixed
    /\ chunkedReader = idleChunked
    /\ closeReader = idleClose
    /\ lastN = 0
    /\ lastErr = "nil"
    /\ firstErr = "nil"
    /\ delivered = << >>
    /\ w = << >>
    /\ calls = << >>
    /\ noResponse

\* parseRequestWithContext(ctx, r, limits)
ParseRequestWithContextCall ==
    /\ parseErr = "pending"
    /\ LET r == parseRequestWithContext(ctxDone, input, pos, maxLine)
       IN /\ req' = r.req
          /\ parseErr' = r.err
          /\ pos' = r.pos
    /\ UNCHANGED <<header, maxSize, input, body, retLen, retErr, fixedReader, chunkedReader,
                   closeReader, lastN, lastErr, firstErr, delivered, gen, maxLine,
                   lineReader, lineRet, writerVars, respVars, ctxDone>>

\* a request is parsed, or the body reader of a request is made and read
InitRequest == Init \/ InitParse

NextRequest ==
    \/ Next
    \/ ParseRequestWithContextCall

SpecRequest == InitRequest /\ [][NextRequest]_vars

(***************************************************************************)
(* The CRLFFastReader on its own: ReadLine and Peek called in any order.   *)
(* pos counts the bytes taken out of the bufio.Reader; lineReader.ahead    *)
(* counts the bytes the bufio.Reader has read from the source beyond pos.  *)
(***************************************************************************)

\* CRLFFastReader.Peek, except that the bytes returned are consumed
PeekConsumes(in, p0, ahead, n) ==
    LET k == Min(n, Len(in) - p0)
    IN IF n > DefaultBufSize
       THEN {[b |-> << >>, err |-> "ErrPeekBeyondCap", pos |-> p0, ahead |-> ahead]}
       ELSE {[b |-> SubSeq(in, p0 + 1, p0 + k), err |-> IF k < n THEN "EOF" ELSE "nil",
              pos |-> p0 + k, ahead |-> 0]}

\* CRLFFastReader.Peek(n) for n >= 0: the bytes and the error returned, the
\* offset afterwards, and what the bufio.Reader may hold afterwards: it
\* reads on until it holds n bytes or the source has ended, and the source
\* hands over no more than is needed or all that fits
Peek(in, p0, ahead, n) ==
    LET avail == Len(in) - p0
        k == Min(n, avail)
    IN IF n > DefaultBufSize
       THEN {[b |-> << >>, err |-> "ErrPeekBeyondCap", pos |-> p0, ahead |-> ahead]}
       ELSE { [b |-> SubSeq(in, p0 + 1, p0 + k), err |-> IF k < n THEN "EOF" ELSE "nil",
               pos |-> p0, ahead |-> a]
              : a \in IF ahead >= n THEN {ahead}
                      ELSE IF avail >= n THEN {n, Min(avail, DefaultBufSize)}
                      ELSE {avail} }

\* what the bufio.Reader may hold after a ReadLine that took c bytes, the
\* last of them by a ReadSlice of last bytes
aheadAfter(ahead, avail, c, last) ==
    IF c <= ahead
    THEN {ahead - c}
    ELSE {0, Min(avail - c, DefaultBufSize - last)}

\* the lines of the sources: content and terminator
LineContents == { << >>, <<"a", CR, "b">>, <<"x", CR>>, <<" ", "y", " ">> }
LineTerminators == { <<LF>>, CRLF }
LineTails == { << >>, <<"z">>, <<"z", CR>> }
SourceLines == { c \o t : c \in LineContents, t \in LineTerminators }
overlong == [i \in 1..(DefaultBufSize + 4) |-> "a"]
LineSources ==
    { l1 \o l2 \o t : l1 \in SourceLines \cup {<< >>}, l2 \in SourceLines, t \in LineTails }
    \cup LineTails
    \cup { overlong \o CRLF \o <<"b", LF>>, overlong,
           SubSeq(overlong, 1, DefaultBufSize) \o <<LF>> }
LineMaxChoices == { -1, 0, 1, DefaultBufSize, 2 * DefaultBufSize }
PeekChoices == { 0, 2, DefaultBufSize, DefaultBufSize + 1 }

InitLines ==
    /\ input \in LineSources
    /\ lineReader = newLineReader
    /\ lineRet = noLineRet
    /\ gen = [genBase EXCEPT !.family = "lines"]
    /\ maxLine = 0
    /\ req = nilRequest
    /\ parseErr = "idle"
    /\ header = << >>
    /\ maxSize = 0
    /\ pos = 0
    /\ ctxDone = FALSE
    /\ body = "nil"
    /\ retLen = 0
    /\ retErr = "nil"
    /\ fixedReader = idleFixed
    /\ chunkedReader = idleChunked
    /\ closeReader = idleClose
    /\ lastN = 0
    /\ lastErr = "nil"
    /\ firstErr = "nil"
    /\ delivered = << >>
    /\ w = << >>
    /\ calls = << >>
    /\ noResponse

\* what a call on the CRLFFastReader leaves alone
restOfLines == <<header, maxSize, input, body, retLen, retErr, fixedReader, chunkedReader,
                 closeReader, lastN, lastErr, firstErr, delivered, gen, maxLine, req,
                 parseErr, writerVars, respVars, ctxDone>>

\* r.ReadLine(max)
ReadLineMax(max) ==
    /\ LET r == ReadLine(input, pos, max)
       IN /\ pos' = r.pos
          /\ lineRet' = [op |-> "ReadLine", arg |-> max, from |-> pos, line |-> r.line,
                         isPrefix |-> r.isPrefix, err |-> r.err, peak |-> r.peak]
          /\ \E a \in IF max <= 0
                      THEN {lineReader.ahead}
                      ELSE aheadAfter(lineReader.ahead, Len(input) - pos, r.pos - pos, r.last) :
                lineReader' = [lineReader EXCEPT !.ahead = a]
    /\ UNCHANGED restOfLines

CRLFFastReaderReadLine == \E max \in LineMaxChoices : ReadLineMax(max)

\* r.Peek(n)
PeekN(n) ==
    /\ \E r \in Peek(input, pos, lineReader.ahead, n) :
          /\ pos' = r.pos
          /\ lineRet' = [op |-> "Peek", arg |-> n, from |-> pos, line |-> r.b,
                         isPrefix |-> FALSE, err |-> r.err, peak |-> 0]
          /\ lineReader' = [lineReader EXCEPT !.ahead = r.ahead]
    /\ UNCHANGED restOfLines

CRLFFastReaderPeek == \E n \in PeekChoices : PeekN(n)

NextLines ==
    \/ CRLFFastReaderReadLine
    \/ CRLFFastReaderPeek

SpecLines == InitLines /\ [][NextLines]_vars

(***************************************************************************)
(* A Header on its own: Add, Set and Del called in any order.              *)
(***************************************************************************)
\* the keys and values handed to the calls
HeaderKeys ==
    { <<"a","c","c","e","p","t">>, <<"A","C","C","E","P","T">>, <<"A","c","c","e","p","t">>,
      <<"x","-","t">>, <<"X","-","T">> }
FieldValues == { <<"v">>, <<"w">> }

\* h := Header{}
InitHeader ==
    /\ header = << >>
    /\ gen = [genBase EXCEPT !.family = "header"]
    /\ input = << >>
    /\ maxSize = 0
    /\ pos = 0
    /\ ctxDone = FALSE
    /\ body = "nil"
    /\ retLen = 0
    /\ retErr = "nil"
    /\ fixedReader = idleFixed
    /\ chunkedReader = idleChunked
    /\ closeReader = idleClose
    /\ lastN = 0
    /\ lastErr = "nil"
    /\ firstErr = "nil"
    /\ delivered = << >>
    /\ w = << >>
    /\ calls = << >>
    /\ noResponse
    /\ noParse

\* what a call on the Header leaves alone
restOfHeader == <<maxSize, input, pos, body, retLen, retErr, fixedReader, chunkedReader,
                  closeReader, lastN, lastErr, firstErr, delivered, gen,
                  writerVars, respVars, parseVars, ctxDone>>

\* h.Add(k, v)
HeaderAddCall(k, v) ==
    /\ Len(HeaderValues(header, k)) < MaxValues
    /\ header' = HeaderAdd(header, k, v)
    /\ UNCHANGED restOfHeader

\* h.Set(k, v)
HeaderSetCall(k, v) ==
    /\ header' = HeaderSet(header, k, v)
    /\ UNCHANGED restOfHeader

\* h.Del(k)
HeaderDelCall(k) ==
    /\ header' = HeaderDel(header, k)
    /\ UNCHANGED restOfHeader

NextHeader ==
    \/ \E k \in HeaderKeys, v \in FieldValues : HeaderAddCall(k, v)
    \/ \E k \in HeaderKeys, v \in FieldValues : HeaderSetCall(k, v)
    \/ \E k \in HeaderKeys : HeaderDelCall(k)

SpecHeader == InitHeader /\ [][NextHeader]_vars

(***************************************************************************)
(* A caller draining a chunked body: after NewBodyReader it goes on        *)
(* calling Read with a buffer that is not empty, as io.ReadAll and io.Copy *)
(* do.  The source answers every read at once, with bytes or with io.EOF.  *)
(***************************************************************************)
InitDrain ==
    /\ Init
    /\ gen.family \in {"wire", "trunc", "badsize"}

\* one Read(p) of the draining caller, len(p) > 0
ChunkedReaderDrain == \E plen \in 1..MaxBuf : ChunkedReaderReadLen(plen)

NextDrain ==
    \/ NewBodyReaderCall
    \/ ChunkedReaderDrain
    \/ Cancel

\* The caller's loop: it calls Read again unless the latest Read returned an
\* error, so in the end either a Read has returned an error or Reads that
\* change something go on for ever.  Weak fairness of ChunkedReaderDrain
\* implies this condition as soon as no Read returns (0, nil) and leaves
\* everything as it was; it is stated in this form because it needs no
\* ENABLED.  The owner of ctx may cancel or not.
DrainLoop == []<>(lastErr # "nil") \/ []<><<ChunkedReaderDrain>>_vars

SpecDrain == InitDrain /\ [][NextDrain]_vars /\ DrainLoop

(***************************************************************************)
(* Chunked streams whose chunk-size lines carry chunk extensions.          *)
(***************************************************************************)
\* what follows the size on a chunk-size line: nothing, or ';' and a text
ChunkExts ==
    { << >>,
      <<";">>,
      <<";","x","=","1">>,
      <<";"," ","n","=","v">>,
      <<";","a",";","b","=","\"","c","\"">>,
      <<";","1","0">> }

\* size texts: the hexadecimal size of the chunk, or a text that is no size
ExtSizeTexts == { << >>, <<"g">> }

RECURSIVE encodeChunksExt(_, _)
encodeChunksExt(cs, ext) ==
    IF cs = << >> THEN << >>
    ELSE FormatHex(Len(Head(cs))) \o ext \o CRLF \o Head(cs) \o CRLF
         \o encodeChunksExt(Tail(cs), ext)

\* a chunked stream with the extension ext1 on the size line of every data
\* chunk and ext0 on the line of the zero-size chunk
wireExt(cs, ext1, ext0, ts) ==
    encodeChunksExt(cs, ext1) \o <<"0">> \o ext0 \o CRLF \o encodeTrailers(ts) \o CRLF

ExtInputs ==
    { [header |-> chunkedHeader, maxSize |-> 0, input |-> wireExt(cs, e1, e0, ts),
       gen |-> [genChunked EXCEPT !.family = "ext", !.chunks = cs, !.trailers = ts,
                                  !.cut = Len(wireExt(cs, e1, e0, ts))]
               @@ [ext1 |-> e1, ext0 |-> e0]]
      : cs \in ShortChunkings, e1 \in ChunkExts, e0 \in ChunkExts,
        ts \in {<< >>, <<trailerXT>>} }
    \cup
    { [header |-> chunkedHeader, maxSize |-> 0,
       input |-> bad \o e1 \o CRLF \o <<"a">> \o CRLF \o <<"0">> \o CRLF \o CRLF,
       gen |-> [genChunked EXCEPT !.family = "extbad", !.bad = bad]
               @@ [ext1 |-> e1, ext0 |-> << >>]]
      : bad \in ExtSizeTexts, e1 \in ChunkExts }

InitExt ==
    /\ \E i \in ExtInputs :
          /\ header = i.header
          /\ maxSize = i.maxSize
          /\ input = i.input
          /\ gen = i.gen
    /\ pos = 0
    /\ ctxDone = FALSE
    /\ body = "new"
    /\ retLen = 0
    /\ retErr = "nil"
    /\ fixedReader = idleFixed
    /\ chunkedReader = idleChunked
    /\ closeReader = idleClose
    /\ lastN = 0
    /\ lastErr = "nil"
    /\ firstErr = "nil"
    /\ delivered = << >>
    /\ w = << >>
    /\ calls = << >>
    /\ noResponse
    /\ noParse

NextExt ==
    \/ NewBodyReaderCall
    \/ ChunkedReaderRead

SpecExt == InitExt /\ [][NextExt]_vars

(***************************************************************************)
(* A chunked reader used by a caller whose limits set MaxLineBytes: the    *)
(* limit is not among the arguments of NewBodyReader or newChunkedReader.  *)
(***************************************************************************)
\* ParseLimits.MaxLineBytes of the caller
ChunkLineCaps == { 4, 16 }

\* a text longer than the larger cap
longText(c) == [i \in 1..LongLineLen |-> c]

\* streams with a long chunk-size line, a long trailer line, and a size line
\* that never ends
LongLineStreams ==
    { <<"1", ";">> \o longText("x") \o CRLF \o <<"a">> \o CRLF \o <<"0">> \o CRLF \o CRLF,
      <<"0">> \o CRLF \o <<"x", "-", "t", ":">> \o longText("v") \o CRLF \o CRLF,
      longText("1") }

ChunkLineInputs ==
    { [header |-> chunkedHeader, maxSize |-> 0, input |-> wire(cs, "lower", ts),
       gen |-> [genChunked EXCEPT !.family = "wire", !.chunks = cs, !.trailers = ts,
                                  !.cut = Len(wire(cs, "lower", ts))]]
      : cs \in ShortChunkings, ts \in TrailerChoices }
    \cup
    { [header |-> chunkedHeader, maxSize |-> 0, input |-> s,
       gen |-> [genChunked EXCEPT !.family = "longline"]]
      : s \in LongLineStreams }

InitChunkLines ==
    /\ \E i \in ChunkLineInputs :
          /\ header = i.header
          /\ maxSize = i.maxSize
          /\ input = i.input
          /\ gen = i.gen
    /\ maxLine \in ChunkLineCaps
    /\ req = nilRequest
    /\ parseErr = "idle"
    /\ lineReader = newLineReader
    /\ lineRet = noLineRet
    /\ pos = 0
    /\ ctxDone = FALSE
    /\ body = "new"
    /\ retLen = 0
    /\ retErr = "nil"
    /\ fixedReader = idleFixed
    /\ chunkedReader = idleChunked
    /\ closeReader = idleClose
    /\ lastN = 0
    /\ lastErr = "nil"
    /\ firstErr = "nil"
    /\ delivered = << >>
    /\ w = << >>
    /\ calls = << >>
    /\ noResponse

NextChunkLines ==
    \/ NewBodyReaderCall
    \/ ChunkedReaderRead

SpecChunkLines == InitChunkLines /\ [][NextChunkLines]_vars

(***************************************************************************)
(* Chunked streams whose lines end in "\r\n" or in a bare "\n".            *)
(***************************************************************************)
EOLs == { CRLF, <<LF>> }

\* the line ending of the chunk-size lines, of the empty line after chunk
\* data, of the trailer lines and of the empty line that ends the trailers
EOLChoices == [size : EOLs, data : EOLs, trailer : EOLs, last : EOLs]

RECURSIVE encodeChunksEOL(_, _)
encodeChunksEOL(cs, e) ==
    IF cs = << >> THEN << >>
    ELSE FormatHex(Len(Head(cs))) \o e.size \o Head(cs) \o e.data
         \o encodeChunksEOL(Tail(cs), e)

RECURSIVE encodeTrailersEOL(_, _)
encodeTrailersEOL(ts, e) ==
    IF ts = << >> THEN << >>
    ELSE Head(ts).raw \o e.trailer \o encodeTrailersEOL(Tail(ts), e)

wireEOL(cs, e, ts) ==
    encodeChunksEOL(cs, e) \o <<"0">> \o e.size \o encodeTrailersEOL(ts, e) \o e.last

EOLInputs ==
    { [header |-> chunkedHeader, maxSize |-> 0, input |-> wireEOL(cs, e, ts),
       gen |-> [genChunked EXCEPT !.family = "eol", !.chunks = cs, !.trailers = ts,
                                  !.cut = Len(wireEOL(cs, e, ts))]
               @@ [eol |-> e]]
      : cs \in ShortChunkings, e \in EOLChoices, ts \in TrailerChoices }

InitEOL ==
    /\ \E i \in EOLInputs :
          /\ header = i.header
          /\ maxSize = i.maxSize
          /\ input = i.input
          /\ gen = i.gen
    /\ pos = 0
    /\ ctxDone = FALSE
    /\ body = "new"
    /\ retLen = 0
    /\ retErr = "nil"
    /\ fixedReader = idleFixed
    /\ chunkedReader = idleChunked
    /\ closeReader = idleClose
    /\ lastN = 0
    /\ lastErr = "nil"
    /\ firstErr = "nil"
    /\ delivered = << >>
    /\ w = << >>
    /\ calls = << >>
    /\ noResponse
    /\ noParse

NextEOL ==
    \/ NewBodyReaderCall
    \/ ChunkedReaderRead

SpecEOL == InitEOL /\ [][NextEOL]_vars

(***************************************************************************)
(* Properties.                                                             *)
(***************************************************************************)
IsPrefix(s, t) == Len(s) <= Len(t) /\ s = SubSeq(t, 1, Len(s))

\* the chunk payloads of the generated stream, concatenated
Payload == Concat(gen.chunks)

RECURSIVE withTrailers(_, _)
\* the header map h after the trailers ts were added under their keys
withTrailers(h, ts) ==
    IF ts = << >> THEN h
    ELSE withTrailers(IF Head(ts).key \in DOMAIN h
                      THEN [h EXCEPT ![Head(ts).key] = Append(@, Head(ts).val)]
                      ELSE h @@ (Head(ts).key :> <<Head(ts).val>>),
                      Tail(ts))

\* the request says Transfer-Encoding: chunked, in some letter case
teChunked == gen.te # << >> /\ gen.te[1] \in {chunked, <<"C","h","u","n","K","E","D">>}

\* the request has a Content-Length line
clPresent == gen.cl # << >>

\* the text v spells the non-negative decimal number k
declaresLength(v, k) ==
    v \in {FormatDec(k), <<" ">> \o FormatDec(k) \o <<" ">>, <<"+">> \o FormatDec(k)}

Lengths == 0..(MaxBody + 1)

\* C1: a chunked reader whose source ends before the zero-size chunk and the
\* empty line after the trailers never returns io.EOF: every Read that meets
\* the end of a truncated stream returns another error.
C1_TruncatedNeverEOF ==
    (body = "chunked" /\ gen.family = "trunc") => lastErr # "EOF"

\* C2: draining a well-formed chunked stream (within the cap) with reads of
\* any sizes returns the chunk payloads in order and no error but the final
\* io.EOF, and at io.EOF all payload bytes were returned, the whole stream was
\* consumed and every trailer is in the header under its canonical key with
\* its trimmed value.
C2_WellFormedDecodes ==
    (/\ body = "chunked"
     /\ gen.family = "wire"
     /\ ~ctxDone
     /\ (maxSize = 0 \/ Len(Payload) <= maxSize))
    => /\ IsPrefix(delivered, Payload)
       /\ firstErr \in {"nil", "EOF"}
       /\ firstErr = "EOF" => /\ delivered = Payload
                              /\ pos = Len(input)
                              /\ header = withTrailers(gen.h0, gen.trailers)

C2_Witness ==
    /\ body = "chunked"
    /\ gen.family = "wire"
    /\ ~ctxDone
    /\ firstErr = "EOF"
    /\ Len(gen.chunks) = MaxChunks
    /\ Len(gen.trailers) = 3
    /\ gen.form = "ext"

\* the calls on the writer were Writes without error followed by one Close
writesThenClose ==
    /\ calls # << >>
    /\ calls[Len(calls)].op = "Close"
    /\ \A i \in 1..(Len(calls) - 1) : calls[i].op = "Write"
    /\ \A i \in 1..Len(calls) : calls[i].err = "nil"

\* C3: round trip: the bytes emitted by any Writes followed by one Close
\* decode to the bytes written, then io.EOF, with no other error and no
\* trailer.
C3_RoundTrip ==
    (body = "chunked" /\ writesThenClose /\ ~ctxDone)
    => /\ IsPrefix(delivered, written)
       /\ firstErr \in {"nil", "EOF"}
       /\ firstErr = "EOF" => /\ delivered = written
                              /\ pos = Len(input)
                              /\ header = << >>

C3_Witness ==
    /\ body = "chunked"
    /\ writesThenClose
    /\ ~ctxDone
    /\ firstErr = "EOF"
    /\ \E i \in writes : calls[i].p = << >>
    /\ \E i \in writes : Len(calls[i].p) = LongLen

\* C4: a fixed-length reader never takes more than the declared length from
\* its source, and over a source of exactly that length it returns those
\* bytes in order, no error but io.EOF, and io.EOF with the last byte.
C4_FixedLengthExact ==
    body = "fixed"
    => /\ pos <= retLen
       /\ (Len(input) = retLen /\ ~ctxDone)
          => /\ delivered = SubSeq(input, 1, pos)
             /\ firstErr \in {"nil", "EOF"}
             /\ firstErr = "EOF" => delivered = input
             /\ (retLen > 0 /\ delivered = input) => firstErr = "EOF"

C4_Witness ==
    /\ body = "fixed"
    /\ ~ctxDone
    /\ retLen = MaxBody
    /\ Len(input) = retLen
    /\ firstErr = "EOF"
    /\ lastN = 1

\* C5: a fixed-length reader over a source shorter than the declared length
\* never returns io.EOF; it returns ErrLengthMismatch, and only once all the
\* bytes of the source were returned.
C5_ShortBodyMismatch ==
    (body = "fixed" /\ ~ctxDone /\ Len(input) < retLen)
    => /\ IsPrefix(delivered, input)
       /\ firstErr \in {"nil", "ErrLengthMismatch"}
       /\ lastErr \in {"nil", "ErrLengthMismatch"}
       /\ firstErr = "ErrLengthMismatch" => delivered = input

C5_Witness ==
    /\ body = "fixed"
    /\ ~ctxDone
    /\ Len(input) < retLen
    /\ firstErr = "ErrLengthMismatch"
    /\ Len(delivered) = MaxBody

C7_BadContentLengthFails ==
    (body # "new" /\ ~teChunked /\ clPresent)
    => /\ (\A k \in Lengths : ~declaresLength(gen.cl[1], k))
          => (retErr = "ErrLengthMismatch" /\ body = "nil" /\ pos = 0)
       /\ \A k \in Lengths :
             (declaresLength(gen.cl[1], k) /\ maxSize > 0 /\ k > maxSize)
             => (retErr = "ErrBodyTooLarge" /\ body = "nil" /\ pos = 0)

\* C8: a chunk-size line whose size text is empty, negative or not all
\* hexadecimal digits makes the reader fail with ErrBadChunk, having
\* returned no byte beyond the payloads of the chunks before it.
C8_BadSizeIsBadChunk ==
    (body = "chunked" /\ gen.family = "badsize" /\ ~ctxDone)
    => /\ IsPrefix(delivered, Payload)
       /\ firstErr \in {"nil", "ErrBadChunk"}

\* C9: with a cap k > 0 a well-formed chunked body of k+1 payload bytes,
\* however chunked, fails with ErrBodyTooLarge (no later than the read that
\* returns byte k+1) and never ends cleanly; a body of exactly k payload
\* bytes decodes to io.EOF with no error.
C9_ChunkedCap ==
    (body = "chunked" /\ gen.family = "wire" /\ ~ctxDone /\ maxSize > 0)
    => /\ Len(Payload) = maxSize + 1
          => /\ firstErr \in {"nil", "ErrBodyTooLarge"}
             /\ Len(delivered) > maxSize => firstErr = "ErrBodyTooLarge"
       /\ Len(Payload) = maxSize
          => /\ firstErr \in {"nil", "EOF"}
             /\ firstErr = "EOF" => delivered = Payload

C9_Witness ==
    /\ body = "chunked"
    /\ gen.family = "wire"
    /\ ~ctxDone
    /\ maxSize > 0
    /\ Len(Payload) = maxSize + 1
    /\ Len(gen.chunks) = MaxChunks
    /\ \A i \in 1..Len(gen.chunks) : Len(gen.chunks[i]) = 1
    /\ firstErr = "ErrBodyTooLarge"

\* C10: with a cap k > 0 a close-delimited reader over a source of k+1 bytes
\* fails with ErrBodyTooLarge and never ends cleanly; over a source of
\* exactly k bytes it returns them and ends with io.EOF.
C10_CloseCap ==
    (body = "close" /\ ~ctxDone /\ maxSize > 0)
    => /\ Len(input) = maxSize + 1 => firstErr \in {"nil", "ErrBodyTooLarge"}
       /\ Len(input) = maxSize
          => /\ firstErr \in {"nil", "EOF"}
             /\ firstErr = "EOF" => delivered = input

\* C11: a close-delimited reader without a cap returns every byte of its
\* source in order and no error but io.EOF, and when it returns io.EOF the
\* whole source was returned.
C11_CloseUncapped ==
    (body = "close" /\ maxSize = 0 /\ ~ctxDone)
    => /\ delivered = SubSeq(input, 1, pos)
       /\ firstErr \in {"nil", "EOF"}
       /\ lastErr \in {"nil", "EOF"}
       /\ firstErr = "EOF" => delivered = input

C11_Witness ==
    /\ body = "close"
    /\ maxSize = 0
    /\ ~ctxDone
    /\ Len(input) = MaxBody
    /\ firstErr = "EOF"
    /\ delivered = input
    /\ lastN = 1

\* one Read(p) with len(p) = plen on the reader NewBodyReader returned
ReadLen(plen) ==
    \/ FixedReaderReadLen(plen)
    \/ ChunkedReaderReadLen(plen)
    \/ CloseReaderReadLen(plen)

\* a Read of the reader has returned io.EOF
signalledEOF == lastErr = "EOF" \/ firstErr = "EOF"

\* C12 as stated: once a fixed-length, chunked or close-delimited reader has
\* returned io.EOF, every later Read returns 0 bytes and io.EOF and takes no
\* byte from the source.
C12_EveryLaterRead ==
    [][(signalledEOF /\ \E plen \in 0..MaxBuf : ReadLen(plen))
       => (lastN' = 0 /\ lastErr' = "EOF" /\ pos' = pos)]_vars

\* C12 amended: once a reader has returned io.EOF, every later Read with a
\* non-empty buffer and a context that is not cancelled returns 0 bytes and
\* io.EOF and takes no byte from the source.
C12_IdempotentEOF ==
    [][(signalledEOF /\ ~ctxDone /\ \E plen \in 1..MaxBuf : ReadLen(plen))
       => (lastN' = 0 /\ lastErr' = "EOF" /\ pos' = pos)]_vars

\* a fixed-length reader returned io.EOF with its last byte and was then
\* read again
C12_Witness ==
    /\ ~ctxDone
    /\ body = "fixed"
    /\ retLen = MaxBody
    /\ delivered = input
    /\ Len(input) = retLen
    /\ firstErr = "EOF"
    /\ lastErr = "EOF"
    /\ lastN = 0

\* C14: when the context is cancelled before WriteResponse is called, the
\* call returns the cancellation error at once: the sink has received no
\* byte, nothing is buffered for it and no byte of the body source was read.
C14_PreCancelledWrite ==
    [][(pc = "start" /\ ctxDone /\ pc' # "start")
       => (pc' = "done" /\ ret' = "Canceled" /\ sink' = << >> /\ bw' = << >> /\ pos' = 0)]_vars

\* a response with a body and headers, given up at the first poll
C14_Witness ==
    /\ pc = "done"
    /\ ret = "Canceled"
    /\ ctxDone
    /\ bw = << >>
    /\ sink = << >>
    /\ pos = 0
    /\ resp.body
    /\ Len(input) = MaxBody
    /\ resp.header # << >>

\* WriteResponse is about to write the status line, a header line, a chunk
\* or the terminal chunk, or to make a step of a body copy
atWriteOperation ==
    \/ pc \in {"start", "copy", "close"}
    \/ pc = "headers" /\ (iter.vals # << >> \/ iter.keys # {})

\* C15: once the context is cancelled WriteResponse starts no further write
\* operation (status line, header line, chunk, copy step of a fixed-length
\* or close-delimited body): nothing more is buffered or sent, and the call
\* returns the cancellation error (the body source itself not failing).
C15_CancelStopsWrites ==
    [][(ctxDone /\ atWriteOperation /\ errAt < 0)
       => (bw' = bw /\ sink' = sink /\ (pc' = "done" => ret' = "Canceled"))]_vars

hexLower == <<"0","1","2","3","4","5","6","7","8","9","a","b","c","d","e","f">>

\* the lower-case hexadecimal text of a length below 256
hexOf(L) ==
    IF L < 16 THEN <<hexLower[L + 1]>>
    ELSE <<hexLower[(L \div 16) + 1], hexLower[(L % 16) + 1]>>

\* the chunk frame of the bytes p, and the terminal chunk frame
frameOf(p) == hexOf(Len(p)) \o <<CR, LF>> \o p \o <<CR, LF>>
terminalFrame == <<"0", CR, LF, CR, LF>>

RECURSIVE framesOf(_)
\* the frames the calls cs must have emitted: one per Write of a non-empty
\* buffer and one terminal frame per Close, none for a call that failed
framesOf(cs) ==
    IF cs = << >> THEN << >>
    ELSE (IF Head(cs).err # "nil" THEN << >>
          ELSE IF Head(cs).op = "Close" THEN terminalFrame
          ELSE IF Head(cs).p = << >> THEN << >>
          ELSE frameOf(Head(cs).p))
         \o framesOf(Tail(cs))

\* the response has a Content-Length whose first value is not empty
clSet == gen.cl # << >> /\ gen.cl[1] # << >>

\* C16 as stated: WriteResponse uses chunked framing whenever
\* Transfer-Encoding is chunked, also when Content-Length is set;
\* fixed-length framing only without chunked; close-delimited framing only
\* when both are absent.
C16_ChunkedOverLength ==
    copy.mode # "none"
    => /\ teChunked => copy.mode = "chunked"
       /\ (~teChunked /\ clSet) => copy.mode = "fixed"
       /\ (~teChunked /\ ~clPresent) => copy.mode = "close"

\* C16 amended: WriteResponse uses fixed-length framing whenever
\* Content-Length has a value, also when Transfer-Encoding is chunked;
\* chunked framing only without such a Content-Length; close-delimited
\* framing only when both are absent; and a call that succeeds has sent,
\* after the header section, the body in that framing.
C16_LengthOverChunked ==
    copy.mode # "none"
    => /\ clSet
          => /\ copy.mode = "fixed"
             /\ \A k \in Lengths : declaresLength(gen.cl[1], k) => copy.n + pos = k
       /\ (~clSet /\ teChunked) => copy.mode = "chunked"
       /\ (~clSet /\ ~teChunked) => copy.mode = "close"
       /\ (pc = "done" /\ ret = "nil")
          => sink = head \o (CASE copy.mode = "fixed" -> SubSeq(input, 1, pos)
                               [] copy.mode = "chunked" -> framesOf(calls)
                               [] copy.mode = "close" -> input)

\* both headers are set and the body went out in fixed-length framing
C16_Witness ==
    /\ pc = "done"
    /\ ret = "nil"
    /\ teChunked
    /\ clSet
    /\ copy.mode = "fixed"
    /\ Len(input) = MaxBody
    /\ sink = head \o input

\* s ends with t
HasSuffix(s, t) == Len(s) >= Len(t) /\ SubSeq(s, Len(s) - Len(t) + 1, Len(s)) = t

\* C17: when the body copy of a chunked WriteResponse fails after some
\* bytes were copied (the body source returns an error, the context not
\* being cancelled), the sink has
\* received the header section, the chunks written before the failure and
\* then the terminal frame, and the call returns the error of the copy.
C17_ChunkedFailureTerminated ==
    (pc = "done" /\ copy.mode = "chunked" /\ ~ctxDone /\ ret # "nil" /\ pos > 0)
    => /\ ret = "ErrUnexpectedEOF"
       /\ sink = head \o framesOf(calls)
       /\ HasSuffix(sink, terminalFrame)

\* C18: whatever Writes and Closes are called on one chunkedWriter, nothing
\* is emitted after the terminal frame of the first Close that succeeded:
\* no second terminal frame and no data chunk.
C18_TerminalOnce ==
    \A i \in closes :
       calls[i].err = "nil" => w = framesOf(SubSeq(calls, 1, i))

\* C19: every Write of a non-empty buffer p that is not refused emits the
\* frame of p (the length in lower-case hexadecimal, CR LF, p, CR LF) and
\* reports Len(p); a Write of an empty buffer emits nothing and returns 0
\* and no error; so the bytes emitted are the frames of the calls in order,
\* and Write("Wiki"), Write("pedia"), Close emit
\* "4\r\nWiki\r\n5\r\npedia\r\n0\r\n\r\n".
C19_WriteFrames ==
    /\ w = framesOf(calls)
    /\ \A i \in writes :
          /\ calls[i].p = << >> => (calls[i].n = 0 /\ calls[i].err = "nil")
          /\ calls[i].err = "nil" => calls[i].n = Len(calls[i].p)
          /\ calls[i].err # "nil" => (calls[i].n = 0 /\ ctxDone)
    /\ (/\ Len(calls) = 3
        /\ \A i \in 1..3 : calls[i].err = "nil"
        /\ <<calls[1].op, calls[1].p>> = <<"Write", <<"W","i","k","i">> >>
        /\ <<calls[2].op, calls[2].p>> = <<"Write", <<"p","e","d","i","a">> >>
        /\ calls[3].op = "Close")
       => w = <<"4", "\r", "\n", "W", "i", "k", "i", "\r", "\n",
                "5", "\r", "\n", "p", "e", "d", "i", "a", "\r", "\n",
                "0", "\r", "\n", "\r", "\n">>

\* a Write of an empty buffer, then one of more than 15 bytes
C19_Witness ==
    /\ Len(calls) = 2
    /\ calls[1] = [op |-> "Write", p |-> << >>, n |-> 0, err |-> "nil"]
    /\ calls[2].op = "Write"
    /\ calls[2].n = LongLen
    /\ w = <<"1", "a", "\r", "\n">> \o calls[2].p \o <<"\r", "\n">>

\* the bytes the body source supplies before it ends or fails
supplied == IF errAt < 0 THEN Len(input) ELSE errAt

\* C20: with a body and Content-Length N, WriteResponse never reads more
\* than N bytes of the body; it returns nil exactly when the body source
\* supplies at least N bytes, and the sink then holds the header section
\* followed by the first N body bytes and nothing else; when the source
\* supplies fewer it returns an error and what was sent or buffered after
\* the header section is body bytes only, no padding.
C20_FixedLengthOutput ==
    copy.mode = "fixed"
    => \A N \in Lengths :
          declaresLength(gen.cl[1], N)
          => /\ pos <= N
             /\ pc = "done"
                => /\ ret = "nil" <=> supplied >= N
                   /\ ret = "nil" => (sink = head \o SubSeq(input, 1, N) /\ bw = << >>)
                   /\ ret # "nil" => (/\ sink \o bw = head \o SubSeq(input, 1, supplied)
                                      /\ IsPrefix(head, sink))

\* the body source holds more than the N > 0 bytes that were sent
C20_Witness ==
    /\ pc = "done"
    /\ ret = "nil"
    /\ copy.mode = "fixed"
    /\ ~direct
    /\ Len(input) = MaxBody
    /\ pos = MaxBody - 1
    /\ sink = head \o SubSeq(input, 1, MaxBody - 1)

\* C13: with the context cancelled before the call, Read on a fixed-length,
\* chunked or close-delimited reader returns 0 bytes and the cancellation
\* error, and parseRequestWithContext returns no request and the
\* cancellation error; neither takes a byte from its source.
C13_PreCancelled ==
    [][/\ (ctxDone /\ \E plen \in 0..MaxBuf : ReadLen(plen))
          => /\ lastN' = 0
             /\ lastErr' = "Canceled"
             /\ pos' = pos
             /\ delivered' = delivered
       /\ (ctxDone /\ ParseRequestWithContextCall)
          => /\ req' = nilRequest
             /\ parseErr' = "Canceled"
             /\ pos' = pos]_vars

\* a request that would have parsed was refused for the cancellation
C13_Witness ==
    /\ ctxDone
    /\ parseErr = "Canceled"
    /\ req = nilRequest
    /\ pos = 0
    /\ maxLine = 4096
    /\ input = <<"G","E","T"," ","*"," ","H","T","T","P","/","1",".","1","\n">>

RECURSIVE linesOf(_, _)
\* the lines "<Canonical-Key>: <value>\r\n" of the values vs stored under k
linesOf(k, vs) ==
    IF vs = << >> THEN << >>
    ELSE CanonicalHeaderKey(k) \o <<":", " ">> \o Head(vs) \o CRLF \o linesOf(k, Tail(vs))

\* the header sections of resp: the status line, the lines of every key in
\* some order of the keys (a range over a map has no fixed order), the empty
\* line
headerSections ==
    LET keys == DOMAIN resp.header
        n == Cardinality(keys)
        proto == IF resp.proto = << >> THEN HTTP11 ELSE resp.proto
        reason == IF resp.status = << >> THEN FormatDec(resp.code) ELSE resp.status
        orders == { o \in [1..n -> keys] : \A i, j \in 1..n : i # j => o[i] # o[j] }
    IN { proto \o <<" ">> \o FormatDec(resp.code) \o <<" ">> \o reason \o CRLF
         \o Concat([i \in 1..n |-> linesOf(o[i], resp.header[o[i]])])
         \o CRLF : o \in orders }

\* C21: WriteResponse writes the status line, one line per header value and
\* one empty line, and the sink has received all of that before any byte of
\* the body source is read; when a response without a body has been written
\* the sink holds exactly this header section.
C21_HeaderSectionFirst ==
    /\ pc \in {"start", "headers"} => pos = 0
    /\ (pc \in {"copy", "close"} \/ pos > 0) => \E hs \in headerSections : IsPrefix(hs, sink)
    /\ (pc = "done" /\ ~resp.body /\ ret = "nil") => sink \in headerSections

\* a response of three header keys, one of them with two values, and no
\* body has been written
C21_Witness ==
    /\ pc = "done"
    /\ ret = "nil"
    /\ ~resp.body
    /\ Cardinality(DOMAIN resp.header) = 3
    /\ \E k \in DOMAIN resp.header : Len(resp.header[k]) = 2
    /\ sink \in headerSections
    /\ bw = << >>

\* the bytes of the source from the offset of the reader on, and the index
\* of the first LF among them (-1: none)
unread == SubSeq(input, pos + 1, Len(input))
nextLF == IndexByte(unread, LF)

C23_LineCap ==
    [][\A max \in LineMaxChoices :
          ReadLineMax(max)
          => LET prefix == IF nextLF >= 0 THEN nextLF ELSE Len(unread)
             IN /\ max <= 0 => /\ lineRet'.err = "ErrInvalidMax"
                               /\ lineRet'.line = << >>
                               /\ lineRet'.peak = 0
                               /\ pos' = pos
                               /\ lineReader' = lineReader
                /\ max > 0 => lineRet'.peak <= max
                /\ (max > 0 /\ prefix > max) => /\ lineRet'.err = "ErrLineTooLong"
                                                /\ lineRet'.line = << >>]_vars

\* a line longer than the buffer of the bufio.Reader was refused after one
\* full buffer had been accumulated
C23_Witness ==
    /\ lineRet.op = "ReadLine"
    /\ lineRet.err = "ErrLineTooLong"
    /\ lineRet.arg = DefaultBufSize
    /\ lineRet.peak = DefaultBufSize
    /\ lineRet.line = << >>
    /\ Len(input) > DefaultBufSize

\* C24 as stated: when the source ends before an LF, ReadLine returns the
\* bytes left, unmodified, with io.EOF (no bytes and io.EOF when none is
\* left), and never another error.
C24_EndOfSource ==
    [][\A max \in LineMaxChoices :
          (max > 0 /\ ReadLineMax(max) /\ nextLF < 0)
          => (lineRet'.line = unread /\ lineRet'.err = "EOF")]_vars

\* C24: when the source ends before an LF and no more than max bytes are
\* left, ReadLine(max) with a positive max returns the bytes left,
\* unmodified, with io.EOF (no bytes and io.EOF when none is left).
C24_EndOfSourceWithinMax ==
    [][\A max \in LineMaxChoices :
          (max > 0 /\ ReadLineMax(max) /\ nextLF < 0 /\ Len(unread) <= max)
          => (lineRet'.line = unread /\ lineRet'.err = "EOF" /\ pos' = Len(input))]_vars

\* after a line, the unterminated "z\r" was returned with io.EOF
C24_Witness ==
    /\ lineRet.op = "ReadLine"
    /\ lineRet.err = "EOF"
    /\ lineRet.from > 0
    /\ lineRet.line = <<"z", CR>>
    /\ pos = Len(input)

\* C25: Peek(n) leaves the offset of the reader where it was, so that every
\* ReadLine returns after it what it would have returned before it; with n
\* bytes left and n within the capacity it returns the next n bytes and no
\* error; with n beyond the capacity it fails with ErrPeekBeyondCap and
\* leaves the reader as it was.
C25_PeekKeepsPosition ==
    [][\A n \in PeekChoices :
          PeekN(n)
          => /\ pos' = pos
             /\ \A max \in LineMaxChoices : ReadLine(input', pos', max) = ReadLine(input, pos, max)
             /\ n > DefaultBufSize => /\ lineRet'.err = "ErrPeekBeyondCap"
                                      /\ lineRet'.line = << >>
                                      /\ lineReader' = lineReader
             /\ (n <= DefaultBufSize /\ Len(unread) >= n)
                => /\ lineRet'.line = SubSeq(unread, 1, n)
                   /\ lineRet'.err = "nil"]_vars

\* two bytes of the second line were peeked, which made the bufio.Reader
\* read them from the source
C25_Witness ==
    /\ lineRet.op = "Peek"
    /\ lineRet.arg = 2
    /\ lineRet.err = "nil"
    /\ lineRet.line = <<"a", CR>>
    /\ pos > 0
    /\ lineRet.from = pos
    /\ lineReader.ahead >= 2

\* a key every part of which, between "-", has no lower-case first letter
\* and no upper-case letter after it
inCanonicalForm(k) ==
    \A i \in 1..Len(k) :
        IF i = 1 \/ k[i - 1] = "-"
        THEN \A j \in 1..26 : k[i] # lowerLetters[j]
        ELSE \A j \in 1..26 : k[i] # upperLetters[j]

\* the values the map h holds under the key k as it is spelled
stored(h, k) == IF k \in DOMAIN h THEN h[k] ELSE << >>

\* C26: every call of Add, Set or Del, with a key in any letter case, leaves
\* only canonical keys in the map and changes only the values under the
\* canonical form of its key: Add appends its value to them, Set leaves its
\* value alone, Del leaves none; Values returns them in insertion order for
\* every spelling of the key and Get returns the first of them or "".
C26_HeaderOps ==
    [][/\ \A k \in DOMAIN header' : inCanonicalForm(k)
       /\ \A k \in HeaderKeys :
             LET ck == CanonicalHeaderKey(k)
                 others == \A x \in (DOMAIN header \cup DOMAIN header') \ {ck} :
                               stored(header', x) = stored(header, x)
             IN /\ inCanonicalForm(ck)
                /\ HeaderValues(header', k) = stored(header', ck)
                /\ HeaderGet(header', k) = IF stored(header', ck) = << >>
                                           THEN << >>
                                           ELSE stored(header', ck)[1]
                /\ \A v \in FieldValues :
                      /\ HeaderAddCall(k, v)
                         => (stored(header', ck) = Append(stored(header, ck), v) /\ others)
                      /\ HeaderSetCall(k, v)
                         => (stored(header', ck) = <<v>> /\ others)
                /\ HeaderDelCall(k)
                   => (ck \notin DOMAIN header' /\ stored(header', ck) = << >> /\ others)]_vars

\* two values were added under "Accept" in different spellings, "X-T" holds
\* one value
C26_Witness ==
    /\ gen.family = "header"
    /\ DOMAIN header = {<<"A","c","c","e","p","t">>, <<"X","-","T">>}
    /\ HeaderValues(header, <<"A","C","C","E","P","T">>) = << <<"v">>, <<"w">> >>
    /\ HeaderGet(header, <<"a","c","c","e","p","t">>) = <<"v">>
    /\ HeaderGet(header, <<"x","-","t">>) = <<"w">>

\* the errors of parseRequestLine
RequestLineErrors ==
    { "malformed request line", "invalid method", "method must be uppercase",
      "invalid protocol", "invalid HTTP version", "invalid HTTP version numbers" }

\* s spells an integer: an optional sign and one decimal digit or more
isInteger(s) ==
    LET d == IF s # << >> /\ s[1] \in {"+", "-"} THEN Tail(s) ELSE s
    IN /\ d # << >>
       /\ \A i \in 1..Len(d) : \E j \in 1..10 : d[i] = digits[j]

\* the line is three tokens, a method of 1 to 20 letters A-Z, and "HTTP/"
\* followed by two integers with a "." between them
requestLineAccepted(line) ==
    LET t == Fields(line)
    IN /\ Len(t) = 3
       /\ Len(t[1]) \in 1..20
       /\ \A i \in 1..Len(t[1]) : \E j \in 1..26 : t[1][i] = upperLetters[j]
       /\ \E d \in 6..Len(t[3]) :
             /\ SubSeq(t[3], 1, 5) = HTTPSlash
             /\ t[3][d] = "."
             /\ isInteger(SubSeq(t[3], 6, d - 1))
             /\ isInteger(SubSeq(t[3], d + 1, Len(t[3])))

\* the request line the parser read from the source
firstLine == ReadLine(input, 0, maxLine)

C28_ChunkStateEdges ==
    [][/\ (body = "new" /\ body' = "chunked") => chunkedReader'.state = "stateChunkHeader"
       /\ body = "chunked"
          => LET s == chunkedReader.state
                 t == chunkedReader'.state
                 used == SubSeq(input, pos + 1, pos')
             IN /\ s # t
                   => \/ /\ s = "stateChunkHeader"
                         /\ t = "stateChunkData"
                         /\ chunkedReader'.remain > 0
                      \/ /\ s = "stateChunkHeader"
                         /\ t = "stateTrailer"
                         /\ chunkedReader'.remain = 0
                      \/ /\ s = "stateChunkData"
                         /\ t = "stateChunkCRLF"
                         /\ chunkedReader'.remain = 0
                      \/ /\ s = "stateChunkCRLF"
                         /\ t = "stateChunkHeader"
                         /\ used = CRLF
                      \/ /\ s = "stateTrailer"
                         /\ t = "stateDone"
                         /\ HasSuffix(used, CRLF)
                         /\ Len(used) = 2 \/ used[Len(used) - 2] = LF
                /\ ((\E plen \in 0..MaxBuf : ChunkedReaderReadLen(plen))
                    /\ lastErr' \notin {"nil", "EOF"})
                   => t = s]_vars

\* a stream of the most chunks, with trailers, was read to its end
C28_Witness ==
    /\ body = "chunked"
    /\ gen.family = "wire"
    /\ Len(gen.chunks) = MaxChunks
    /\ gen.trailers # << >>
    /\ chunkedReader.state = "stateDone"
    /\ delivered = Payload
    /\ lastErr = "EOF"

\* C29: the remain counter of a chunked reader is never negative and is
\* positive only in stateChunkData; the n counter of a fixed-length reader
\* is never negative and is the declared length less the bytes delivered.
C29_RemainingCounters ==
    /\ body = "chunked"
       => /\ chunkedReader.remain >= 0
          /\ chunkedReader.remain > 0 => chunkedReader.state = "stateChunkData"
    /\ body = "fixed"
       => /\ fixedReader.n >= 0
          /\ fixedReader.n = retLen - Len(delivered)

\* a fixed-length reader in the middle of its body
C29_Witness ==
    /\ body = "fixed"
    /\ retLen = MaxBody
    /\ Len(delivered) = 2
    /\ fixedReader.n = MaxBody - 2
    /\ lastErr = "nil"

\* the errors of the chunked reader that abort the stream
FatalErrors == { "ErrBadChunk", "ErrUnexpectedTrailer", "ErrBodyTooLarge" }

\* C30: once a Read of a chunked reader has returned ErrBadChunk,
\* ErrUnexpectedTrailer or ErrBodyTooLarge, no later Read on it returns body
\* bytes, adds a trailer to the header, or returns io.EOF.
C30_FatalIsFinal ==
    [][(/\ body = "chunked"
        /\ firstErr \in FatalErrors
        /\ \E plen \in 0..MaxBuf : ChunkedReaderReadLen(plen))
       => /\ lastN' = 0
          /\ header' = header
          /\ lastErr' # "EOF"]_vars

\* C31: while a chunked reader has not returned io.EOF, also after a Read
\* that failed inside the trailer section, the header holds nothing the
\* reader added: it is the header NewBodyReader was given.
C31_TrailersAfterEOF ==
    (/\ body = "chunked"
     /\ chunkedReader.state # "stateDone"
     /\ ~signalledEOF)
    => header = gen.h0

\* C32: a reader built with a cap k > 0, fixed-length, chunked or
\* close-delimited, never hands more than k body bytes to its caller.
C32_DeliveredWithinCap ==
    (body \in {"fixed", "chunked", "close"} /\ maxSize > 0)
    => Len(delivered) <= maxSize

\* C33: a Read of a body reader that returns the cancellation error returns
\* no byte and leaves the reader's fields, the header and the position in
\* the source as they were; no call on a reader changes ctx.
C33_CanceledReadKeepsState ==
    [][/\ ((\E plen \in 0..MaxBuf : ReadLen(plen)) /\ lastErr' = "Canceled")
          => /\ lastN' = 0
             /\ fixedReader' = fixedReader
             /\ chunkedReader' = chunkedReader
             /\ closeReader' = closeReader
             /\ header' = header
             /\ pos' = pos
             /\ delivered' = delivered
       /\ (NewBodyReaderCall \/ \E plen \in 0..MaxBuf : ReadLen(plen))
          => ctxDone' = ctxDone]_vars

\* a chunked reader was cancelled in the middle of a chunk and read again
C33_Witness ==
    /\ ctxDone
    /\ body = "chunked"
    /\ chunkedReader.state = "stateChunkData"
    /\ chunkedReader.remain > 0
    /\ chunkedReader.readTotal > 0
    /\ delivered # << >>
    /\ lastErr = "Canceled"
    /\ lastN = 0

\* C34: every Read with a non-empty buffer on a chunked reader that returns
\* no error, (0, nil) included, has taken bytes from the source or changed
\* the chunk state, and a caller that goes on calling Read with a non-empty
\* buffer gets io.EOF or an error after finitely many calls.
C34_DrainTerminates ==
    /\ [][\A plen \in 1..MaxBuf :
             (ChunkedReaderReadLen(plen) /\ lastErr' = "nil")
             => (pos' > pos \/ chunkedReader'.state # chunkedReader.state)]_vars
    /\ (body = "chunked") ~> (firstErr # "nil")

\* a Read has returned (0, nil) after the empty line that follows the data
\* of a chunk
C34_Witness ==
    /\ ~ctxDone
    /\ body = "chunked"
    /\ chunkedReader.state = "stateChunkHeader"
    /\ delivered # << >>
    /\ pos > 0
    /\ lastN = 0
    /\ lastErr = "nil"
    /\ firstErr = "nil"

\* the chunk-size line at the read position, without its chunk extension:
\* the text before the first ';' and the line's own terminator
bareSizeLine ==
    LET line == ReadString(input, pos).line
        semi == IndexByte(line, ";")
    IN IF semi < 0 THEN line
       ELSE Slice(line, 0, semi)
            \o (IF HasSuffix(line, CRLF) THEN CRLF
                ELSE IF HasSuffix(line, <<LF>>) THEN <<LF>> ELSE << >>)

\* C35: a Read in stateChunkHeader decodes a chunk-size line "<hex>;<text>"
\* as it would decode the line "<hex>" alone, the same size, error and next
\* state, for data chunks and for the zero-size chunk; so a stream with
\* extensions decodes to its payload and trailers whatever the extensions say.
C35_ExtensionsIgnored ==
    /\ [][(/\ body = "chunked"
           /\ chunkedReader.state = "stateChunkHeader"
           /\ \E plen \in 0..MaxBuf : ChunkedReaderReadLen(plen)
           /\ ~ctxDone)
          => LET bare == nextChunkSize(bareSizeLine, 0)
             IN /\ lastErr' = bare.err
                /\ lastN' = 0
                /\ pos' = pos + Len(ReadString(input, pos).line)
                /\ bare.err = "nil"
                   => /\ chunkedReader'.remain = bare.size
                      /\ chunkedReader'.state = IF bare.size = 0 THEN "stateTrailer"
                                                ELSE "stateChunkData"
                /\ bare.err # "nil" => chunkedReader' = chunkedReader]_vars
    /\ [](gen.family = "ext"
          => /\ IsPrefix(delivered, Payload)
             /\ firstErr \in {"nil", "EOF"}
             /\ firstErr = "EOF"
                => /\ delivered = Payload
                   /\ header = withTrailers(gen.h0, gen.trailers)
                   /\ chunkedReader.state = "stateDone"
                   /\ pos = Len(input))

\* a stream with extensions on the lines of its data chunks and of its
\* zero-size chunk was decoded to its end
C35_Witness ==
    /\ gen.family = "ext"
    /\ Len(gen.chunks) = MaxChunks
    /\ gen.ext1 = <<";","a",";","b","=","\"","c","\"">>
    /\ gen.ext0 = <<";","1","0">>
    /\ gen.trailers # << >>
    /\ chunkedReader.state = "stateDone"
    /\ delivered = Payload
    /\ firstErr = "EOF"

RECURSIVE longestRun(_, _, _)
\* the most bytes without a '\n' between them in s (run: those seen so far)
longestRun(s, run, best) ==
    IF s = << >> THEN IF run > best THEN run ELSE best
    ELSE IF Head(s) = LF
         THEN longestRun(Tail(s), 0, IF run > best THEN run ELSE best)
         ELSE longestRun(Tail(s), run + 1, best)

\* C36: a Read of a chunked reader that reads a chunk-size line or trailer
\* lines never takes in more than MaxLineBytes bytes of one line without
\* its '\n': a longer line makes it fail before that.
C36_ChunkLinesCapped ==
    [][(/\ body = "chunked"
        /\ chunkedReader.state \in {"stateChunkHeader", "stateTrailer"}
        /\ \E plen \in 0..MaxBuf : ChunkedReaderReadLen(plen))
       => longestRun(SubSeq(input, pos + 1, pos'), 0, 0) <= maxLine]_vars

\* C37: a chunked stream whose chunk-size lines, empty lines after chunk
\* data, trailer lines and final empty line end in "\r\n" or in a bare "\n",
\* in any combination, decodes as the stream with "\r\n" everywhere does:
\* no error but io.EOF, and at io.EOF the payload was delivered, the trailers
\* are in the header and the reader is in stateDone.
C37_BareLFAccepted ==
    (body = "chunked" /\ gen.family = "eol")
    => /\ IsPrefix(delivered, Payload)
       /\ firstErr \in {"nil", "EOF"}
       /\ firstErr = "EOF"
          => /\ delivered = Payload
             /\ header = withTrailers(gen.h0, gen.trailers)
             /\ chunkedReader.state = "stateDone"
             /\ pos = Len(input)

\* the length of the next line of the source without its "\n" or "\r\n"
\* (for a source with an LF ahead)
contentLen == nextLF - (IF nextLF >= 1 /\ unread[nextLF] = CR THEN 1 ELSE 0)

\* C38: ReadLine(max) returns the next LF-terminated line whenever the line
\* without its terminator is at most max bytes long, and returns
\* ErrLineTooLong only when it is longer than max.
C38_ContentWithinMax ==
    [][\A max \in LineMaxChoices :
          (max > 0 /\ ReadLineMax(max) /\ nextLF >= 0)
          => /\ contentLen <= max => /\ lineRet'.err = "nil"
                                     /\ Len(lineRet'.line) = contentLen
             /\ lineRet'.err = "ErrLineTooLong" => contentLen > max]_vars

\* the buffer of the bufio.Reader fills before an LF is found: the next
\* DefaultBufSize bytes of the source hold none
bufferFills ==
    /\ Len(unread) >= DefaultBufSize
    /\ nextLF < 0 \/ nextLF >= DefaultBufSize

\* C39: ReadLine returns isPrefix = true only when the buffer of the reader
\* filled without an LF being found, and isPrefix = false with every line
\* and with every io.EOF; a line longer than max alone does not set it.
C39_IsPrefixOnlyOnFullBuffer ==
    [][\A max \in LineMaxChoices :
          ReadLineMax(max)
          => /\ lineRet'.isPrefix => bufferFills
             /\ lineRet'.err \in {"nil", "EOF"} => ~lineRet'.isPrefix]_vars

====
